---- MODULE Spec2Model ----
(***************************************************************************)
(* SecureVote: the revision batch engine (runDryRun / commitBatch) and the *)
(* review task workflow (createTask / assignTask / resolveTask) over the   *)
(* shared MySQL/InnoDB store.                                              *)
(*                                                                         *)
(* Store model.  The tables are the committed rows.  Every pooled          *)
(* connection that is inside beginTransaction() .. commit()/rollback()     *)
(* keeps its uncommitted writes in a per-connection overlay (txVoters,     *)
(* txBatches, txFlags, txTasks); an overlay row is an exclusive row lock,  *)
(* so an UPDATE of a row that is in another connection's overlay waits     *)
(* (the action is not enabled).  Plain SELECTs are non-locking reads of    *)
(* the committed rows plus the connection's own overlay (InnoDB default,   *)
(* REPEATABLE READ; no statement of the repository changes the isolation   *)
(* level).  Any statement inside a transaction may throw (lost connection, *)
(* lock wait timeout, deadlock victim): the handler's catch block then     *)
(* runs connection.rollback().                                             *)
(*                                                                         *)
(* Left out: the timestamp columns (created_at, committed_at, resolved_at, *)
(* updated_at) and the write-once payload columns (region, dates,          *)
(* merkle_root, task_type, priority, details), which no operation reads.   *)
(*                                                                         *)
(* Spec is the batch engine, SpecTasks the task workflow; each runs        *)
(* NumConns connections concurrently and at most MaxCalls (MaxTaskCalls)   *)
(* calls in all.                                                           *)
(*                                                                         *)
(* The other services have a specification each.  SpecSweep is the address *)
(* cluster detector (detectAddressClusters, assignFlag, resolveFlag) on    *)
(* NumConns connections, SpecSweepSeq the same with one call at a time,    *)
(* SpecRollSweep the detector next to the batch engine.  SpecRisk applies  *)
(* the risk rules to one group.  SpecChain is the audit log and            *)
(* verifyHashChain.  SpecCache is validateAddress with its geocoding chain *)
(* and the address_validation_cache table under a clock in days.           *)
(* SpecNormalize applies normalizeAddress to bounded strings, SpecQuality  *)
(* the address quality score and the validation result to its arguments,   *)
(* SpecName validateName and SpecSoundex soundex to bounded strings.       *)
(* SpecFlags adds getAddressFlags to SpecSweepSeq and SpecStatus adds      *)
(* getHashChainStatus to SpecChain.  SpecWorker is the AddressClusterWorker *)
(* singleton on the single JavaScript thread.  The last two returns of the *)
(* services are kept in out.                                               *)
(***************************************************************************)
EXTENDS Integers, Sequences, FiniteSets, TLC

\* ---------------------------------------------------------------- bounds
NumVoters == 2
MaxBatches == 2
MaxTasks == 1
NumConns == 2
MaxCalls == 5
MaxTaskCalls == 3
MaxSweepCalls == 3
MaxGroup == 25
MaxLogs == 3
MaxVerifyCalls == 3
MaxValidateCalls == 3
MaxDay == 31
MaxLen == 5
MaxTokenLen == 4
MaxNameLen == 5
MaxWorkerCalls == 6

Voters == 1..NumVoters
Conns == 1..NumConns
Users == {1, 2}
Roles == {"blo"}
Actions == {"approved", "rejected", "escalated", "needs_more_info"}
NotesIn == {"", "note"}

\* SQL NULL in an integer column (ids start at 1)
NULL == 0

\* LIMIT of the two scans of runDryRun
DuplicateLimit == 50
DeceasedLimit == 20

\* ------------------------------------------------------- voter identities
\* voters(aadhaar_number, email, mobile_number): identity columns, never
\* written by the operations modelled here.
aadhaar_number(v) == (v + 1) \div 2
email(v) == ""
mobile_number(v) == NULL
\* death_records(aadhaar_number): the external death registry
death_records == {1}

VARIABLES
    voters,            \* voter_id -> [is_active, registration_status, review_reason]
    revision_batches,  \* batch_id -> [status]
    revision_flags,    \* flag_id -> [batch_id, voter_id, flag_type, reason, score, status];
                       \* flag_id, used only as the identity of the row, is written
                       \* <<batch_id, position in the batch>>
    review_tasks,      \* task_id -> row of review_tasks
    nextBatchId, nextTaskId,   \* AUTO_INCREMENT counters
    calls,             \* number of calls made so far
    conn,              \* connection -> the call it is executing
    last,              \* the call that finished last and what its caller got
    txVoters, txBatches, txFlags, txTasks,  \* connection -> uncommitted rows
    address_cluster_flags,   \* id -> row of address_cluster_flags
    nextClusterFlagId,       \* its AUTO_INCREMENT counter
    sweep,             \* connection -> the detectAddressClusters call it runs
    audit_logs,        \* the audit log, in timestamp order
    hash_chain_verification, \* the verification blocks, in insertion order
    appended,          \* the audit log as its writer appended it
    verify,            \* the verifyHashChain call in progress
    address_validation_cache, \* address_hash -> row of the cache
    now,               \* NOW(), in days
    geo,               \* the validateAddress call in progress
    input, output,     \* argument and value of a function applied on its own
    worker,            \* the AddressClusterWorker singleton and its runs
    out                \* the last two returns of the detector, verifier or validator

db == <<voters, revision_batches, revision_flags, review_tasks>>
tx == <<txVoters, txBatches, txFlags, txTasks>>
counters == <<nextBatchId, nextTaskId>>
sweepVars == <<address_cluster_flags, nextClusterFlagId, sweep>>
chainVars == <<audit_logs, appended, hash_chain_verification, verify>>
cacheVars == <<address_validation_cache, now, geo>>
fnVars == <<input, output>>
workerVars == <<worker>>
\* the state of the services that the batch engine and the task workflow
\* never touch
ext == <<sweepVars, chainVars, cacheVars, fnVars, workerVars, out>>
\* the state of the batch engine and the task workflow
roll == <<revision_batches, revision_flags, review_tasks, nextBatchId, nextTaskId,
          conn, last, txVoters, txBatches, txFlags, txTasks>>
vars == <<voters, revision_batches, revision_flags, review_tasks,
          nextBatchId, nextTaskId, calls, conn, last,
          txVoters, txBatches, txFlags, txTasks,
          address_cluster_flags, nextClusterFlagId, sweep,
          audit_logs, appended, hash_chain_verification, verify,
          address_validation_cache, now, geo, input, output, worker, out>>

\* ---------------------------------------------------------------- helpers
Empty == [k \in {} |-> 0]

\* rows of a table as one connection sees them: its own writes over the
\* committed rows
Merge(base, ov) ==
    [k \in (DOMAIN base) \cup (DOMAIN ov) |-> IF k \in DOMAIN ov THEN ov[k] ELSE base[k]]

\* row k of a table is write-locked by a connection other than c
Locked(txT, c, k) == \E d \in Conns \ {c} : k \in DOMAIN txT[d]

RECURSIVE Ascending(_)
\* the flag ids of one batch as the sequence in ascending order
Ascending(S) ==
    IF S = {} THEN <<>>
    ELSE LET m == CHOOSE x \in S : \A y \in S : x[2] <= y[2]
         IN <<m>> \o Ascending(S \ {m})

\* LIMIT n without ORDER BY: any n of the matching rows
Limit(S, n) ==
    IF Cardinality(S) <= n THEN {S} ELSE {T \in SUBSET S : Cardinality(T) = n}

IdleConn == [op |-> "none", pc |-> "idle", id |-> NULL, todo |-> <<>>, n |-> 0,
             action |-> "", notes |-> ""]

\* the call of connection c returns (res = "success") or throws res; finally
\* connection.release().  n is flags_count / flags_applied of the result,
\* or how many flags the loop had handled when the call threw.
Return(c, res) ==
    /\ conn' = [conn EXCEPT ![c] = IdleConn]
    /\ last' = [op |-> conn[c].op, id |-> conn[c].id, result |-> res, n |-> conn[c].n]

\* a call that ends in the step that starts it
ReturnAtOnce(o, k, res) ==
    /\ conn' = conn
    /\ last' = [op |-> o, id |-> k, result |-> res, n |-> 0]

\* connection.commit(): the overlay becomes the committed rows
TxCommit(c) ==
    /\ voters' = Merge(voters, txVoters[c])
    /\ revision_batches' = Merge(revision_batches, txBatches[c])
    /\ revision_flags' = Merge(revision_flags, txFlags[c])
    /\ review_tasks' = Merge(review_tasks, txTasks[c])
    /\ txVoters' = [txVoters EXCEPT ![c] = Empty]
    /\ txBatches' = [txBatches EXCEPT ![c] = Empty]
    /\ txFlags' = [txFlags EXCEPT ![c] = Empty]
    /\ txTasks' = [txTasks EXCEPT ![c] = Empty]

\* a rollback that is no rollback: the statements already executed stay
\* (the handler ran its queries outside the transaction)
TxRollbackPartial(c) ==
    TxCommit(c)

\* a rollback by hand: the handler resets the batch and its flags instead
\* of rolling the transaction back
TxRollbackCompensate(c) ==
    /\ voters' = voters
    /\ review_tasks' = review_tasks
    /\ revision_batches' =
           [b \in DOMAIN revision_batches |->
               IF conn[c].op = "commitBatch" /\ b = conn[c].id
               THEN [revision_batches[b] EXCEPT !.status = "draft"]
               ELSE revision_batches[b]]
    /\ revision_flags' =
           [f \in DOMAIN revision_flags |->
               IF conn[c].op = "commitBatch" /\ revision_flags[f].batch_id = conn[c].id
               THEN [revision_flags[f] EXCEPT !.status = "pending"]
               ELSE revision_flags[f]]
    /\ txVoters' = [txVoters EXCEPT ![c] = Empty]
    /\ txBatches' = [txBatches EXCEPT ![c] = Empty]
    /\ txFlags' = [txFlags EXCEPT ![c] = Empty]
    /\ txTasks' = [txTasks EXCEPT ![c] = Empty]

\* connection.rollback(): the overlay is discarded
TxRollback(c) ==
    /\ UNCHANGED db
    /\ txVoters' = [txVoters EXCEPT ![c] = Empty]
    /\ txBatches' = [txBatches EXCEPT ![c] = Empty]
    /\ txFlags' = [txFlags EXCEPT ![c] = Empty]
    /\ txTasks' = [txTasks EXCEPT ![c] = Empty]

\* ------------------------------------------------------------------ Init
\* no call of the detector, the verifier or the validator is in progress
IdleSweep == [pc |-> "idle", thresholds |-> <<>>, todo |-> <<>>, existing |-> <<>>,
              flags |-> <<>>]
IdleVerify == [pc |-> "idle", auditLogs |-> <<>>, i |-> 0, previousHash |-> <<>>,
               invalidCount |-> 0, verifiedBy |-> NULL]
IdleGeo == [pc |-> "idle", addressHash |-> "", keys |-> <<>>, tried |-> <<>>,
            geocodeResult |-> <<>>]

\* the tables of the batch engine and the task workflow are empty and the
\* pool is idle
InitRoll ==
    /\ revision_batches = Empty
    /\ revision_flags = Empty
    /\ review_tasks = Empty
    /\ nextBatchId = 1
    /\ nextTaskId = 1
    /\ calls = 0
    /\ conn = [c \in Conns |-> IdleConn]
    /\ last = [op |-> "none", id |-> NULL, result |-> "none", n |-> 0]
    /\ txVoters = [c \in Conns |-> Empty]
    /\ txBatches = [c \in Conns |-> Empty]
    /\ txFlags = [c \in Conns |-> Empty]
    /\ txTasks = [c \in Conns |-> Empty]

\* nothing returned yet
NoReturn == [op |-> "none", result |-> "none"]

\* the caller of a detector, verifier or validator call gets r: out holds
\* the last return and the one before it
Returned(r) == <<r, out[1]>>

\* no cluster flag, no audit entry, no cached address, nothing returned
\* the worker after its constructor: isRunning false, intervalId null; and
\* what has happened to its runs so far
IdleWorker == [isRunning |-> FALSE, scheduled |-> FALSE, inFlight |-> 0,
               scans |-> 0, skipped |-> 0, failed |-> 0]

InitServices ==
    /\ address_cluster_flags = Empty
    /\ nextClusterFlagId = 1
    /\ sweep = [c \in Conns |-> IdleSweep]
    /\ audit_logs = <<>>
    /\ appended = <<>>
    /\ hash_chain_verification = <<>>
    /\ verify = IdleVerify
    /\ address_validation_cache = Empty
    /\ now = 0
    /\ geo = IdleGeo
    /\ worker = IdleWorker
    /\ out = <<NoReturn, NoReturn>>

InitExt ==
    /\ InitServices
    /\ input = <<>>
    /\ output = <<>>

\* a voter row as registration leaves it (registration_status DEFAULT
\* 'pending_review')
NewVoter == [is_active |-> 1, registration_status |-> "pending_review",
             review_reason |-> ""]

Init ==
    /\ voters = [v \in Voters |-> NewVoter]
    /\ InitRoll
    /\ InitExt


\* ------------------------------------------------------------- runDryRun
\* the duplicates query: pairs v1 < v2 sharing aadhaar, e-mail or mobile
DuplicatePairs ==
    {p \in Voters \X Voters :
        /\ p[1] < p[2]
        /\ \/ aadhaar_number(p[1]) = aadhaar_number(p[2])
           \/ (email(p[1]) = email(p[2]) /\ email(p[1]) # "")
           \/ (mobile_number(p[1]) = mobile_number(p[2]) /\ mobile_number(p[1]) # NULL)}

\* a deceased query without the test of is_active
DeceasedVotersAnyStatus ==
    {v \in Voters : aadhaar_number(v) \in death_records}

\* the deceased query: active voters whose aadhaar is in the death registry
DeceasedVoters ==
    {v \in Voters : aadhaar_number(v) \in death_records /\ voters[v].is_active = 1}

DuplicateFlag(p) ==
    [voter_id |-> p[1], flag_type |-> "duplicate", reason |-> p[2], score |-> 85]
DeceasedFlag(v) ==
    [voter_id |-> v, flag_type |-> "deceased", reason |-> NULL, score |-> 95]

RECURSIVE FlagSeq(_)
\* the rows of a scan in the order the loop inserts them
FlagSeq(S) ==
    IF S = {} THEN <<>>
    ELSE LET m == CHOOSE x \in S : \A y \in S :
                      \/ x.voter_id < y.voter_id
                      \/ (x.voter_id = y.voter_id /\ x.reason <= y.reason)
         IN <<m>> \o FlagSeq(S \ {m})

\* beginTransaction and INSERT INTO revision_batches ... 'draft'
RunDryRunBegin(c) ==
    /\ conn[c].pc = "idle"
    /\ calls < MaxCalls
    /\ calls' = calls + 1
    /\ UNCHANGED ext
    /\ nextBatchId <= MaxBatches
    /\ txBatches' = [txBatches EXCEPT ![c] =
                        (nextBatchId :> [status |-> "draft"])]
    /\ nextBatchId' = nextBatchId + 1
    /\ conn' = [conn EXCEPT ![c] =
                   [IdleConn EXCEPT !.op = "runDryRun", !.pc = "scan", !.id = nextBatchId]]
    /\ UNCHANGED <<db, txVoters, txFlags, txTasks, nextTaskId>>
    /\ last' = last

\* the two SELECTs; both read the one snapshot of the transaction, which the
\* first of them takes, and the INSERTs between them touch no voter row
RunDryRunScan(c) ==
    /\ conn[c].op = "runDryRun"
    /\ conn[c].pc = "scan"
    /\ \E D \in Limit(DuplicatePairs, DuplicateLimit) :
       \E X \in Limit(DeceasedVoters, DeceasedLimit) :
          conn' = [conn EXCEPT ![c].pc = "insert",
                               ![c].todo = FlagSeq({DuplicateFlag(p) : p \in D})
                                           \o FlagSeq({DeceasedFlag(v) : v \in X})]
    /\ UNCHANGED <<db, tx, counters>>
    /\ calls' = calls
    /\ UNCHANGED ext
    /\ last' = last

\* a dry run that applies what it finds: the deceased voter is deactivated
\* when the flag is inserted
RunDryRunInsertFlagApplying(c) ==
    /\ conn[c].op = "runDryRun"
    /\ conn[c].pc = "insert"
    /\ conn[c].todo # <<>>
    /\ LET f == Head(conn[c].todo)
       IN /\ txFlags' = [txFlags EXCEPT ![c] =
                            (<<conn[c].id, conn[c].n + 1>> :> [batch_id |-> conn[c].id, voter_id |-> f.voter_id,
                                            flag_type |-> f.flag_type, reason |-> f.reason,
                                            score |-> f.score, status |-> "pending"]) @@ @]
          /\ txVoters' = [txVoters EXCEPT ![c] =
                            IF f.flag_type = "deceased"
                            THEN (f.voter_id :> [Merge(voters, @)[f.voter_id]
                                                    EXCEPT !.is_active = 0]) @@ @
                            ELSE @]
    /\ conn' = [conn EXCEPT ![c].todo = Tail(@), ![c].n = @ + 1]
    /\ UNCHANGED <<db, txBatches, txTasks, counters>>
    /\ calls' = calls
    /\ UNCHANGED ext
    /\ last' = last

\* one iteration of either loop: INSERT INTO revision_flags ... 'pending'
RunDryRunInsertFlag(c) ==
    /\ conn[c].op = "runDryRun"
    /\ conn[c].pc = "insert"
    /\ conn[c].todo # <<>>
    /\ LET f == Head(conn[c].todo)
       IN txFlags' = [txFlags EXCEPT ![c] =
                         (<<conn[c].id, conn[c].n + 1>> :> [batch_id |-> conn[c].id, voter_id |-> f.voter_id,
                                         flag_type |-> f.flag_type, reason |-> f.reason,
                                         score |-> f.score, status |-> "pending"]) @@ @]
    /\ conn' = [conn EXCEPT ![c].todo = Tail(@), ![c].n = @ + 1]
    /\ UNCHANGED <<db, txVoters, txBatches, txTasks, counters>>
    /\ calls' = calls
    /\ UNCHANGED ext
    /\ last' = last

\* connection.commit() and return {batch_id, flags, flags_count}
RunDryRunCommit(c) ==
    /\ conn[c].op = "runDryRun"
    /\ conn[c].pc = "insert"
    /\ conn[c].todo = <<>>
    /\ TxCommit(c)
    /\ Return(c, "success")
    /\ UNCHANGED <<counters>>
    /\ calls' = calls
    /\ UNCHANGED ext

\* ----------------------------------------------------------- commitBatch
\* a status test that only refuses cancelled batches
NotCommittableCancelledOnly(status) == status = "cancelled"

\* if (batch.status !== 'draft') throw
NotCommittable(status) == status # "draft"

\* SELECT * FROM revision_flags WHERE batch_id = ? AND status = 'pending'
PendingFlags(b) ==
    {f \in DOMAIN revision_flags :
        revision_flags[f].batch_id = b /\ revision_flags[f].status = "pending"}

\* beginTransaction, SELECT the batch, the two throws, SELECT the pending
\* flags (same snapshot as the first SELECT)
CommitBatchBegin(c, b) ==
    /\ conn[c].pc = "idle"
    /\ calls < MaxCalls
    /\ calls' = calls + 1
    /\ UNCHANGED ext
    /\ IF b \notin DOMAIN revision_batches
       THEN ReturnAtOnce("commitBatch", b, "not_found")
       ELSE IF NotCommittable(revision_batches[b].status)
       THEN ReturnAtOnce("commitBatch", b, "invalid_transition")
       ELSE /\ conn' = [conn EXCEPT ![c] =
                           [IdleConn EXCEPT !.op = "commitBatch", !.id = b, !.pc = "apply",
                                            !.todo = Ascending(PendingFlags(b))]]
            /\ last' = last
    /\ UNCHANGED <<db, tx, counters>>

\* UPDATE voters SET is_active = 0 issued on the pool instead of the
\* transaction's connection: the write is committed at once
DeactivateVoterAutocommit(c, v) ==
    /\ ~Locked(txVoters, c, v)
    /\ voters' = [voters EXCEPT ![v].is_active = 0]
    /\ txVoters' = txVoters

\* UPDATE voters SET is_active = 0 WHERE voter_id = ? (inside the transaction)
DeactivateVoter(c, v) ==
    /\ ~Locked(txVoters, c, v)
    /\ txVoters' = [txVoters EXCEPT ![c] =
                       (v :> [Merge(voters, @)[v] EXCEPT !.is_active = 0]) @@ @]
    /\ voters' = voters

\* one iteration of the loop over the pending flags: the voter UPDATE for a
\* deceased flag, then UPDATE revision_flags SET status = 'applied'
CommitBatchApplyFlag(c) ==
    /\ conn[c].op = "commitBatch"
    /\ conn[c].pc = "apply"
    /\ conn[c].todo # <<>>
    /\ LET f == Head(conn[c].todo)
           flag == revision_flags[f]
       IN /\ IF flag.flag_type = "deceased"
             THEN DeactivateVoter(c, flag.voter_id)
             ELSE UNCHANGED <<voters, txVoters>>
          /\ ~Locked(txFlags, c, f)
          /\ txFlags' = [txFlags EXCEPT ![c] =
                            (f :> [Merge(revision_flags, @)[f] EXCEPT !.status = "applied"]) @@ @]
    /\ conn' = [conn EXCEPT ![c].todo = Tail(@), ![c].n = @ + 1]
    /\ UNCHANGED <<revision_batches, revision_flags, review_tasks, txBatches, txTasks,
                   counters>>
    /\ calls' = calls
    /\ UNCHANGED ext
    /\ last' = last

\* UPDATE revision_batches SET status = 'committed', committed_at = NOW()
CommitBatchUpdateStatus(c) ==
    /\ conn[c].op = "commitBatch"
    /\ conn[c].pc = "apply"
    /\ conn[c].todo = <<>>
    /\ ~Locked(txBatches, c, conn[c].id)
    /\ txBatches' = [txBatches EXCEPT ![c] =
                        (conn[c].id :> [Merge(revision_batches, @)[conn[c].id]
                                           EXCEPT !.status = "committed"]) @@ @]
    /\ conn' = [conn EXCEPT ![c].pc = "commit"]
    /\ UNCHANGED <<db, txVoters, txFlags, txTasks, counters>>
    /\ calls' = calls
    /\ UNCHANGED ext
    /\ last' = last

\* connection.commit() and return {batch_id, flags_applied, status}
CommitBatchCommit(c) ==
    /\ conn[c].op = "commitBatch"
    /\ conn[c].pc = "commit"
    /\ TxCommit(c)
    /\ Return(c, "success")
    /\ UNCHANGED <<counters>>
    /\ calls' = calls
    /\ UNCHANGED ext

\* --------------------------------------------------------- review tasks
\* an UPDATE ... WHERE task_id = k that matched no row holds the gap lock
\* on the end of the primary key until its transaction ends
GapLocked(c) ==
    \E d \in Conns \ {c} :
        /\ conn[d].op = "resolveTask"
        /\ conn[d].pc # "idle"
        /\ conn[d].id \notin DOMAIN review_tasks

\* createTask: INSERT INTO review_tasks (autocommit); status defaults to open
CreateTask(c, v) ==
    /\ conn[c].pc = "idle"
    /\ calls < MaxTaskCalls
    /\ calls' = calls + 1
    /\ UNCHANGED ext
    /\ nextTaskId <= MaxTasks
    /\ ~GapLocked(c)
    /\ review_tasks' = (nextTaskId :>
                           [voter_id |-> v, status |-> "open",
                            assigned_to |-> NULL, assigned_role |-> "",
                            resolution_action |-> "", resolution_notes |-> "",
                            resolved_by |-> NULL]) @@ review_tasks
    /\ nextTaskId' = nextTaskId + 1
    /\ ReturnAtOnce("createTask", nextTaskId, "success")
    /\ UNCHANGED <<voters, revision_batches, revision_flags, tx, nextBatchId>>

\* assignTask: one autocommit UPDATE with no test of the row count or of the
\* current status; it always returns {success: true}
AssignTask(c, k, u, r) ==
    /\ conn[c].pc = "idle"
    /\ calls < MaxTaskCalls
    /\ calls' = calls + 1
    /\ UNCHANGED ext
    /\ IF k \in DOMAIN review_tasks
       THEN /\ ~Locked(txTasks, c, k)
            /\ review_tasks' = [review_tasks EXCEPT ![k].assigned_to = u,
                                                    ![k].assigned_role = r,
                                                    ![k].status = "in_progress"]
       ELSE review_tasks' = review_tasks
    /\ ReturnAtOnce("assignTask", k, "success")
    /\ UNCHANGED <<voters, revision_batches, revision_flags, tx, counters>>

\* resolveTask: beginTransaction and UPDATE review_tasks SET status =
\* 'resolved', ... WHERE task_id = ? (no test of the row count or status)
ResolveTaskBegin(c, k, u, a, notes) ==
    /\ conn[c].pc = "idle"
    /\ calls < MaxTaskCalls
    /\ calls' = calls + 1
    /\ UNCHANGED ext
    /\ IF k \in DOMAIN review_tasks
       THEN /\ ~Locked(txTasks, c, k)
            /\ txTasks' = [txTasks EXCEPT ![c] =
                              (k :> [review_tasks[k] EXCEPT !.status = "resolved",
                                                            !.resolution_action = a,
                                                            !.resolution_notes = notes,
                                                            !.resolved_by = u])]
       ELSE txTasks' = txTasks
    /\ conn' = [conn EXCEPT ![c] =
                   [IdleConn EXCEPT !.op = "resolveTask", !.pc = "voter", !.id = k,
                                    !.action = a, !.notes = notes]]
    /\ UNCHANGED <<db, txVoters, txBatches, txFlags, counters>>
    /\ last' = last

\* the voter UPDATE without its approved branch
VoterStatusForRejectedOnly(a, notes) ==
    IF a = "rejected"
    THEN [registration_status |-> "rejected",
          review_reason |-> IF notes # "" THEN notes ELSE "Rejected by reviewer"]
    ELSE [registration_status |-> "", review_reason |-> ""]

\* what the action writes to the voter: approved -> active, rejected ->
\* rejected with review_reason = notes || 'Rejected by reviewer'; an empty
\* registration_status stands for no UPDATE
VoterStatusFor(a, notes) ==
    IF a = "approved"
    THEN [registration_status |-> "active", review_reason |-> ""]
    ELSE IF a = "rejected"
    THEN [registration_status |-> "rejected",
          review_reason |-> IF notes # "" THEN notes ELSE "Rejected by reviewer"]
    ELSE [registration_status |-> "", review_reason |-> ""]

\* SELECT the task (the connection sees its own UPDATE) and, if there is a
\* task with a voter_id, the UPDATE of the voter
ResolveTaskVoter(c) ==
    /\ conn[c].op = "resolveTask"
    /\ conn[c].pc = "voter"
    /\ LET tasks == Merge(review_tasks, txTasks[c])
           k == conn[c].id
           w == VoterStatusFor(conn[c].action, conn[c].notes)
       IN IF k \in DOMAIN tasks /\ tasks[k].voter_id # NULL /\ w.registration_status # ""
          THEN LET v == tasks[k].voter_id
                   row == Merge(voters, txVoters[c])[v]
               IN /\ ~Locked(txVoters, c, v)
                  /\ txVoters' = [txVoters EXCEPT ![c] =
                        (v :> [row EXCEPT
                                  !.registration_status = w.registration_status,
                                  !.review_reason = IF conn[c].action = "rejected"
                                                    THEN w.review_reason ELSE @]) @@ @]
          ELSE txVoters' = txVoters
    /\ conn' = [conn EXCEPT ![c].pc = "commit"]
    /\ UNCHANGED <<db, txBatches, txFlags, txTasks, counters>>
    /\ calls' = calls
    /\ UNCHANGED ext
    /\ last' = last

\* connection.commit() and return {success: true}
ResolveTaskCommit(c) ==
    /\ conn[c].op = "resolveTask"
    /\ conn[c].pc = "commit"
    /\ TxCommit(c)
    /\ Return(c, "success")
    /\ UNCHANGED <<counters>>
    /\ calls' = calls
    /\ UNCHANGED ext

\* ------------------------------------------------------------- failures
\* a statement of the transaction throws: catch, connection.rollback(),
\* rethrow
TxFail(c) ==
    /\ conn[c].pc # "idle"
    /\ TxRollback(c)
    /\ Return(c, "error")
    /\ UNCHANGED <<counters>>
    /\ calls' = calls
    /\ UNCHANGED ext

\* the ids a caller can name
BatchIds == 1..MaxBatches
TaskIds == 1..MaxTasks

\* the revision batch engine
NextBatch ==
    \/ \E c \in Conns : RunDryRunBegin(c)
    \/ \E c \in Conns : RunDryRunScan(c)
    \/ \E c \in Conns : RunDryRunInsertFlag(c)
    \/ \E c \in Conns : RunDryRunCommit(c)
    \/ \E c \in Conns, b \in BatchIds : CommitBatchBegin(c, b)
    \/ \E c \in Conns : CommitBatchApplyFlag(c)
    \/ \E c \in Conns : CommitBatchUpdateStatus(c)
    \/ \E c \in Conns : CommitBatchCommit(c)
    \/ \E c \in Conns : TxFail(c)

Spec == Init /\ [][NextBatch]_vars

\* the review task workflow
NextTasks ==
    \/ \E c \in Conns, v \in Voters \cup {NULL} : CreateTask(c, v)
    \/ \E c \in Conns, k \in TaskIds, u \in Users, r \in Roles : AssignTask(c, k, u, r)
    \/ \E c \in Conns, k \in TaskIds, u \in Users, a \in Actions, notes \in NotesIn :
          ResolveTaskBegin(c, k, u, a, notes)
    \/ \E c \in Conns : ResolveTaskVoter(c)
    \/ \E c \in Conns : ResolveTaskCommit(c)
    \/ \E c \in Conns : TxFail(c)

SpecTasks == Init /\ [][NextTasks]_vars

\* ------------------------------------------------- detectAddressClusters
\* voters(address_hash, name, dob, created_at): columns written at
\* registration and by no operation modelled here.  A name is written as
\* the parts that name.trim().split(/\s+/) gives; dates are day numbers.
address_hash(v) == IF v <= 2 THEN "d1" ELSE "d2"
name(v) == IF v = 1 THEN <<"Asha", "Rao">>
           ELSE IF v = 2 THEN <<"Ravi", "rao">> ELSE <<"Mina", "Das">>
dob(v) == (v + 1) \div 2
created_at(v) == v

\* String.prototype.toLowerCase on the surnames in use
toLowerCase(w) == IF w = "Rao" THEN "rao" ELSE IF w = "Das" THEN "das" ELSE w

\* the thresholds argument of a sweep
ThresholdsIn == {[low |-> 1, medium |-> 2, high |-> 3],
                 [low |-> 2, medium |-> 2, high |-> 2]}

\* the count and the span of the registration-velocity rule
VelocityCount == 10
VelocityDays == 7

SetMin(S) == CHOOSE x \in S : \A y \in S : x <= y
SetMax(S) == CHOOSE x \in S : \A y \in S : x >= y

\* the rows the GROUP BY query reads: WHERE address_hash IS NOT NULL AND
\* registration_status != 'rejected' (is_active is not tested)
Grouped == {v \in DOMAIN voters : /\ address_hash(v) # ""
                                  /\ voters[v].registration_status # "rejected"}

\* one row of the GROUP BY address_hash query
Cluster(h) ==
    LET G == {v \in Grouped : address_hash(v) = h}
    IN [address_hash |-> h,
        voter_count |-> Cardinality(G),
        names |-> {name(v) : v \in G},
        dobs |-> {dob(v) : v \in G},
        first_registration |-> SetMin({created_at(v) : v \in G}),
        last_registration |-> SetMax({created_at(v) : v \in G})]

\* HAVING voter_count >= thresholds.low
Clusters(th) ==
    {cl \in {Cluster(address_hash(v)) : v \in Grouped} : cl.voter_count >= th.low}

\* the place of a digest in the order GROUP BY yields the groups
GroupRank(h) == SetMin({v \in Voters : address_hash(v) = h})

RECURSIVE ByCountDesc(_)
\* ORDER BY voter_count DESC (groups of one size in the order of GROUP BY)
ByCountDesc(S) ==
    IF S = {} THEN <<>>
    ELSE LET m == CHOOSE x \in S : \A y \in S :
                      \/ x.voter_count > y.voter_count
                      \/ (x.voter_count = y.voter_count
                             /\ GroupRank(x.address_hash) <= GroupRank(y.address_hash))
         IN <<m>> \o ByCountDesc(S \ {m})

\* the count tiers tested from the bottom: a group at the high threshold
\* is caught by the medium test first
BaseTierMediumFirst(n, th) ==
    IF n >= th.medium THEN [score |-> 3, level |-> "medium"]
    ELSE IF n >= th.high THEN [score |-> 5, level |-> "high"]
    ELSE [score |-> 1, level |-> "low"]

\* base risk from the voter count (scores in tenths)
BaseTier(n, th) ==
    IF n >= th.high THEN [score |-> 5, level |-> "high"]
    ELSE IF n >= th.medium THEN [score |-> 3, level |-> "medium"]
    ELSE [score |-> 1, level |-> "low"]

\* the risk of a group of n voters with the given number of distinct
\* surnames, the given highest count of one birth date in the dobs list,
\* and the given days between first and last registration: the score in
\* tenths, and the level
RiskOf(n, surnames, maxDobCount, timeSpanDays, th) ==
    LET base == BaseTier(n, th)
        \* surnames.size / Math.max(voter_count, 1), capped at 1.0, < 0.3
        fewSurnames == 10 * surnames < 3 * (IF n > 1 THEN n ELSE 1)
        s1 == IF fewSurnames THEN base.score + 2 ELSE base.score
        l1 == IF fewSurnames /\ base.level = "low" THEN "medium" ELSE base.level
        \* 1.0 - maxDobCount / voter_count < 0.5
        dobClustered == 2 * maxDobCount > n
        s2 == IF dobClustered THEN s1 + 2 ELSE s1
        l2 == IF dobClustered /\ l1 \in {"low", "medium"} THEN "high" ELSE l1
        fast == n > VelocityCount /\ timeSpanDays < VelocityDays
        s3 == IF fast THEN s2 + 2 ELSE s2
        l3 == IF fast /\ l2 # "high"
              THEN (IF l2 = "low" THEN "medium" ELSE "high") ELSE l2
    IN [risk_score |-> IF s3 < 10 THEN s3 ELSE 10, risk_level |-> l3]

\* the surnames of a group: the last part of each distinct name, lower-cased
Surnames(names) == {toLowerCase(nm[Len(nm)]) : nm \in {x \in names : Len(x) > 0}}

\* dobs is GROUP_CONCAT(DISTINCT dob): every date occurs once in the list
MaxDobCount(dobs) == IF dobs = {} THEN 0 ELSE 1

\* the risk the loop computes for one row of the query
ClusterRisk(cl, th) ==
    RiskOf(cl.voter_count, Cardinality(Surnames(cl.names)), MaxDobCount(cl.dobs),
           cl.last_registration - cl.first_registration, th)

\* isSuspicious = riskLevel high or critical, or riskScore >= 0.6
IsSuspicious(r) ==
    IF r.risk_level \in {"high", "critical"} \/ r.risk_score >= 6 THEN 1 ELSE 0

\* cluster.address_hash.substring(0, 64) of a 64-character digest
ClusterId(h) == h

RECURSIVE AscendingIds(_)
AscendingIds(S) ==
    IF S = {} THEN <<>>
    ELSE LET m == SetMin(S) IN <<m>> \o AscendingIds(S \ {m})

\* a SELECT that matches no row (the digest compared with the id column)
FlagRowsNone(h) == <<>>

\* SELECT ... FROM address_cluster_flags WHERE address_hash = ?: the ids of
\* the rows, in the order of the index (address_hash, id)
FlagRows(h) ==
    AscendingIds({k \in DOMAIN address_cluster_flags :
                     address_cluster_flags[k].address_hash = h})

\* the columns of address_cluster_flags that carry a unique index: the
\* table is created with PRIMARY KEY (id) and INDEX idx_address_hash
UniqueColumns == {"id"}

\* the rows that make the INSERT of a flag for digest h a duplicate key
DuplicateKeyRows(h) ==
    {k \in DOMAIN address_cluster_flags :
        "address_hash" \in UniqueColumns /\ address_cluster_flags[k].address_hash = h}

\* what a call of the detector leaves alone besides the voters
sweepFrame == <<roll, chainVars, cacheVars, fnVars, workerVars>>

\* a registration adds the next voter to the roll
SubmitVoter ==
    /\ Cardinality(DOMAIN voters) < NumVoters
    /\ voters' = voters @@ ((Cardinality(DOMAIN voters) + 1) :> NewVoter)
    /\ out' = Returned([op |-> "submitVoter", result |-> "success"])
    /\ UNCHANGED <<sweepVars, sweepFrame, calls>>

\* the GROUP BY query of a sweep
DetectQuery(c, th) ==
    /\ sweep[c].pc = "idle"
    /\ calls < MaxSweepCalls
    /\ calls' = calls + 1
    /\ sweep' = [sweep EXCEPT ![c] =
                    [IdleSweep EXCEPT !.pc = "check", !.thresholds = th,
                                      !.todo = ByCountDesc(Clusters(th))]]
    /\ UNCHANGED <<voters, address_cluster_flags, nextClusterFlagId, sweepFrame, out>>

\* a test that no row passes (reviewed_at compared with undefined)
ReviewedNever(row) == FALSE

\* existing[0].reviewed_at !== null
Reviewed(row) == row.reviewed_at # ""

\* the head of an iteration: the SELECT of the existing flag, and the
\* continue when its first row has been reviewed
DetectCheck(c) ==
    /\ sweep[c].pc = "check"
    /\ sweep[c].todo # <<>>
    /\ LET existing == FlagRows(Head(sweep[c].todo).address_hash)
       IN IF existing # <<>> /\ Reviewed(address_cluster_flags[existing[1]])
          THEN sweep' = [sweep EXCEPT ![c].todo = Tail(@)]
          ELSE sweep' = [sweep EXCEPT ![c].pc = "write", ![c].existing = existing]
    /\ UNCHANGED <<voters, address_cluster_flags, nextClusterFlagId, sweepFrame, calls, out>>

\* the rest of the iteration: UPDATE ... WHERE address_hash = ? when the
\* SELECT found a row, INSERT ... ON DUPLICATE KEY UPDATE when it found
\* none; then flags.push
DetectWrite(c) ==
    /\ sweep[c].pc = "write"
    /\ LET cl == Head(sweep[c].todo)
           h == cl.address_hash
           r == ClusterRisk(cl, sweep[c].thresholds)
           Set(row) == [row EXCEPT !.voter_count = cl.voter_count,
                                   !.risk_score = r.risk_score,
                                   !.is_suspicious = IsSuspicious(r)]
       IN /\ IF sweep[c].existing # <<>>
             THEN /\ address_cluster_flags' =
                        [k \in DOMAIN address_cluster_flags |->
                            IF address_cluster_flags[k].address_hash = h
                            THEN Set(address_cluster_flags[k])
                            ELSE address_cluster_flags[k]]
                  /\ UNCHANGED nextClusterFlagId
             ELSE IF DuplicateKeyRows(h) # {}
             THEN /\ address_cluster_flags' =
                        [k \in DOMAIN address_cluster_flags |->
                            IF k \in DuplicateKeyRows(h)
                            THEN Set(address_cluster_flags[k])
                            ELSE address_cluster_flags[k]]
                  /\ UNCHANGED nextClusterFlagId
             ELSE /\ address_cluster_flags' =
                        address_cluster_flags @@
                        (nextClusterFlagId :>
                            [cluster_id |-> ClusterId(h), address_hash |-> h,
                             voter_count |-> cl.voter_count,
                             risk_score |-> r.risk_score,
                             is_suspicious |-> IsSuspicious(r),
                             reviewed_by |-> NULL, reviewed_at |-> ""])
                  /\ nextClusterFlagId' = nextClusterFlagId + 1
          /\ sweep' = [sweep EXCEPT
                          ![c].pc = "check", ![c].existing = <<>>, ![c].todo = Tail(@),
                          ![c].flags = Append(@, [address_hash |-> h,
                                                  voter_count |-> cl.voter_count,
                                                  risk_score |-> r.risk_score,
                                                  risk_level |-> r.risk_level])]
    /\ UNCHANGED <<voters, sweepFrame, calls, out>>

\* return {flagsCreated, flags, thresholds}; finally connection.release()
DetectReturn(c) ==
    /\ sweep[c].pc = "check"
    /\ sweep[c].todo = <<>>
    /\ out' = Returned([op |-> "detectAddressClusters", result |-> "success",
                        flagsCreated |-> Len(sweep[c].flags),
                        flags |-> sweep[c].flags,
                        thresholds |-> sweep[c].thresholds])
    /\ sweep' = [sweep EXCEPT ![c] = IdleSweep]
    /\ UNCHANGED <<voters, address_cluster_flags, nextClusterFlagId, sweepFrame, calls>>

\* a query of the loop throws: the sweep has no catch, the error reaches
\* the caller and what the loop has written stays
DetectFail(c) ==
    /\ sweep[c].pc # "idle"
    /\ out' = Returned([op |-> "detectAddressClusters", result |-> "error"])
    /\ sweep' = [sweep EXCEPT ![c] = IdleSweep]
    /\ UNCHANGED <<voters, address_cluster_flags, nextClusterFlagId, sweepFrame, calls>>

\* assignFlag: UPDATE ... SET reviewed_by, reviewed_at = NOW() WHERE
\* cluster_id = ?, then INSERT INTO review_tasks
AssignFlag(flagId, assignedTo, assignedRole) ==
    /\ calls < MaxSweepCalls
    /\ calls' = calls + 1
    /\ nextTaskId <= MaxTasks
    /\ address_cluster_flags' =
           [k \in DOMAIN address_cluster_flags |->
               IF address_cluster_flags[k].cluster_id = flagId
               THEN [address_cluster_flags[k] EXCEPT !.reviewed_by = assignedTo,
                                                     !.reviewed_at = "NOW()"]
               ELSE address_cluster_flags[k]]
    /\ review_tasks' = (nextTaskId :>
                           [voter_id |-> NULL, status |-> "open",
                            assigned_to |-> assignedTo, assigned_role |-> assignedRole,
                            resolution_action |-> "", resolution_notes |-> "",
                            resolved_by |-> NULL]) @@ review_tasks
    /\ nextTaskId' = nextTaskId + 1
    /\ out' = Returned([op |-> "assignFlag", result |-> "success", id |-> flagId])
    /\ UNCHANGED <<voters, revision_batches, revision_flags, nextBatchId, conn, last, tx,
                   nextClusterFlagId, sweep, chainVars, cacheVars, fnVars, workerVars>>

\* the action argument of resolveFlag
FlagActions == {"approved", "false_positive"}

\* resolveFlag: UPDATE ... SET reviewed_by, reviewed_at = NOW(),
\* is_suspicious WHERE cluster_id = ?
ResolveFlag(flagId, resolvedBy, action) ==
    /\ calls < MaxSweepCalls
    /\ calls' = calls + 1
    /\ address_cluster_flags' =
           [k \in DOMAIN address_cluster_flags |->
               IF address_cluster_flags[k].cluster_id = flagId
               THEN [address_cluster_flags[k] EXCEPT
                        !.reviewed_by = resolvedBy, !.reviewed_at = "NOW()",
                        !.is_suspicious = IF action = "approved" THEN 1 ELSE 0]
               ELSE address_cluster_flags[k]]
    /\ out' = Returned([op |-> "resolveFlag", result |-> "success", id |-> flagId])
    /\ UNCHANGED <<voters, nextClusterFlagId, sweep, sweepFrame>>

\* the digests a reviewer can name
ClusterIds == {ClusterId(address_hash(v)) : v \in Voters}

\* the roll when the sweeps start: one voter registered
InitSweep ==
    /\ voters = (1 :> NewVoter)
    /\ InitRoll
    /\ InitExt

\* the cluster detector, its reviewers and registrations, on the pool
NextSweep ==
    \/ SubmitVoter
    \/ \E c \in Conns, th \in ThresholdsIn : DetectQuery(c, th)
    \/ \E c \in Conns : DetectCheck(c)
    \/ \E c \in Conns : DetectWrite(c)
    \/ \E c \in Conns : DetectReturn(c)
    \/ \E c \in Conns : DetectFail(c)
    \/ \E k \in ClusterIds, u \in Users, r \in Roles : AssignFlag(k, u, r)
    \/ \E k \in ClusterIds, u \in Users, a \in FlagActions : ResolveFlag(k, u, a)

SpecSweep == InitSweep /\ [][NextSweep]_vars

\* the same with one call at a time
SeqConns == {1}

\* no sweep is in progress
NoSweep == \A c \in Conns : sweep[c].pc = "idle"

\* the calls that are not sweeps, made between two sweeps
SubmitVoterSeq == NoSweep /\ SubmitVoter
AssignFlagSeq(flagId, assignedTo, assignedRole) ==
    NoSweep /\ AssignFlag(flagId, assignedTo, assignedRole)
ResolveFlagSeq(flagId, resolvedBy, action) ==
    NoSweep /\ ResolveFlag(flagId, resolvedBy, action)

NextSweepSeq ==
    \/ SubmitVoterSeq
    \/ \E c \in SeqConns, th \in ThresholdsIn : DetectQuery(c, th)
    \/ \E c \in SeqConns : DetectCheck(c)
    \/ \E c \in SeqConns : DetectWrite(c)
    \/ \E c \in SeqConns : DetectReturn(c)
    \/ \E c \in SeqConns : DetectFail(c)
    \/ \E k \in ClusterIds, u \in Users, r \in Roles : AssignFlagSeq(k, u, r)
    \/ \E k \in ClusterIds, u \in Users, a \in FlagActions : ResolveFlagSeq(k, u, a)

SpecSweepSeq == InitSweep /\ [][NextSweepSeq]_vars

\* the row getAddressFlags returns for a row of the table: risk_level and
\* status are computed by the two CASE expressions (risk_score in tenths)
FlagView(row) ==
    [id |-> row.cluster_id,
     address_hash |-> row.address_hash,
     voter_count |-> row.voter_count,
     risk_score |-> row.risk_score,
     risk_level |-> IF row.is_suspicious = 1 /\ row.risk_score >= 8 THEN "critical"
                    ELSE IF row.is_suspicious = 1 /\ row.risk_score >= 6 THEN "high"
                    ELSE IF row.is_suspicious = 1 /\ row.risk_score >= 4 THEN "medium"
                    ELSE "low",
     status |-> IF row.reviewed_at # "" THEN "resolved"
                ELSE IF row.reviewed_by # NULL THEN "under_review"
                ELSE "open",
     assigned_to |-> row.reviewed_by]

\* getAddressFlags() without filters: the rows, here without their order
GetAddressFlags ==
    /\ NoSweep
    /\ calls < MaxSweepCalls
    /\ calls' = calls + 1
    /\ out' = Returned([op |-> "getAddressFlags", result |-> "success",
                        flags |-> {FlagView(address_cluster_flags[k]) :
                                      k \in DOMAIN address_cluster_flags}])
    /\ UNCHANGED <<voters, sweepVars, sweepFrame>>

\* the detector, its reviewers and the flag listing, one call at a time
NextFlags ==
    \/ NextSweepSeq
    \/ GetAddressFlags

SpecFlags == InitSweep /\ [][NextFlags]_vars

\* the batch engine and the cluster detector over one roll
NextRollSweep ==
    \/ NextBatch
    \/ \E c \in SeqConns, th \in ThresholdsIn : DetectQuery(c, th)
    \/ \E c \in SeqConns : DetectCheck(c)
    \/ \E c \in SeqConns : DetectWrite(c)
    \/ \E c \in SeqConns : DetectReturn(c)
    \/ \E c \in SeqConns : DetectFail(c)

SpecRollSweep == Init /\ [][NextRollSweep]_vars

\* ------------------------------------------------ the risk of one group
\* what the application of a function on its own leaves alone
fnFrame == <<voters, roll, calls, sweepVars, chainVars, cacheVars, workerVars, out>>

\* thresholds = { low: 6, medium: 12, high: 20 }, the default, and the
\* lowest a caller can pass
DefaultThresholds == [low |-> 6, medium |-> 12, high |-> 20]
RiskThresholds == {DefaultThresholds, [low |-> 1, medium |-> 1, high |-> 1]}

\* the rows the GROUP BY query can return for one group: voter_count,
\* the number of distinct surnames among its names, the highest count of
\* a date in dobs, the days between first and last registration
GroupRows ==
    {g \in [voter_count : 1..MaxGroup, surnames : {0, 1, 3, MaxGroup},
            maxDobCount : {0, 1}, timeSpanDays : {0, VelocityDays},
            thresholds : RiskThresholds] :
        g.surnames <= g.voter_count /\ g.voter_count >= g.thresholds.low}

InitRisk ==
    /\ voters = [v \in Voters |-> NewVoter]
    /\ InitRoll
    /\ InitServices
    /\ input \in GroupRows
    /\ output = <<>>

\* the body of the loop up to the normalised score, for one row
ComputeRisk ==
    /\ output = <<>>
    /\ output' = RiskOf(input.voter_count, input.surnames, input.maxDobCount,
                        input.timeSpanDays, input.thresholds)
    /\ UNCHANGED <<input, fnFrame>>

SpecRisk == InitRisk /\ [][ComputeRisk]_vars

\* ------------------------------------------------------- verifyHashChain
\* what a call of the verifier, an append or a change of the log leaves alone
chainFrame == <<voters, roll, sweepVars, cacheVars, fnVars, workerVars>>

\* a text is the sequence of its characters; the texts of the action and
\* details columns in use
ActionTexts == {<<"u">>, <<"u", "x">>}
DetailTexts == {<<>>, <<"x">>}

\* the texts the writer is given
ActionsLogged == {<<"u">>}
DetailsLogged == {<<"x">>}

\* SQL NULL in a hash column, and a hash that is no digest of the log
NullHash == <<>>
ForgedHash == <<"forged", <<>>, <<>>>>

RECURSIVE Decimal(_)
\* the decimal digits of log_id, as the template literal writes it
Decimal(n) ==
    LET digit == <<"0", "1", "2", "3", "4", "5", "6", "7", "8", "9">>
    IN IF n < 10 THEN <<digit[n + 1]>>
       ELSE Decimal(n \div 10) \o <<digit[(n % 10) + 1]>>

\* crypto.createHash('sha256').update(text + previous digest).digest('hex'):
\* two digests are equal when the text and the previous digest are (the
\* digest has a fixed length, so where it starts in the text is known)
sha256(text, previous) == <<"sha256", text, previous>>

\* `${log.log_id}${log.action}${log.details}${previousHash || ''}`, hashed
BlockHash(log, previousHash) ==
    sha256(Decimal(log.log_id) \o log.action \o log.details, previousHash)

RECURSIVE ChainHash(_)
\* the hash of the last entry of a log, as the loop computes it; NULL for
\* the empty log
ChainHash(logs) ==
    IF logs = <<>> THEN NullHash
    ELSE BlockHash(logs[Len(logs)], ChainHash(SubSeq(logs, 1, Len(logs) - 1)))

\* the writer appends an entry that references the hash of the entry
\* before it
LogAction(action, details) ==
    /\ Len(audit_logs) < MaxLogs
    /\ LET e == [log_id |-> Len(audit_logs) + 1, action |-> action, details |-> details,
                 previous_hash |-> ChainHash(audit_logs)]
       IN /\ audit_logs' = Append(audit_logs, e)
          /\ appended' = Append(appended, e)
    /\ UNCHANGED <<hash_chain_verification, verify, chainFrame, calls, out>>

\* the entries of a log that are not as they were appended
TamperedIn(logs) == {i \in 1..Len(logs) : logs[i] # appended[i]}

\* somebody with access to the table rewrites the action, details or
\* previous_hash (with a forged hash) of entry i, or puts them back; at
\* most one entry of the log differs from what was appended
Tamper(i, action, details, forge) ==
    /\ i \in 1..Len(audit_logs)
    /\ calls < MaxVerifyCalls
    /\ calls' = calls + 1
    /\ LET e == [audit_logs[i] EXCEPT
                    !.action = action, !.details = details,
                    !.previous_hash = IF forge THEN ForgedHash
                                      ELSE appended[i].previous_hash]
       IN /\ e # audit_logs[i]
          /\ audit_logs' = [audit_logs EXCEPT ![i] = e]
    /\ Cardinality(TamperedIn(audit_logs')) <= 1
    /\ UNCHANGED <<appended, hash_chain_verification, verify, chainFrame, out>>

\* SELECT log_id, action, details, timestamp, previous_hash FROM audit_logs
\* ORDER BY timestamp ASC
VerifyRead(verifiedBy) ==
    /\ verify.pc = "idle"
    /\ calls < MaxVerifyCalls
    /\ calls' = calls + 1
    /\ verify' = [IdleVerify EXCEPT !.pc = "loop", !.auditLogs = audit_logs, !.i = 1,
                                    !.verifiedBy = verifiedBy]
    /\ UNCHANGED <<audit_logs, appended, hash_chain_verification, chainFrame, out>>

\* one iteration: hash the entry, compare its previous_hash with the hash
\* of the entry before, INSERT INTO hash_chain_verification
VerifyBlock ==
    /\ verify.pc = "loop"
    /\ verify.i <= Len(verify.auditLogs)
    /\ LET log == verify.auditLogs[verify.i]
           currentHash == BlockHash(log, verify.previousHash)
           isValid == log.previous_hash = verify.previousHash
       IN /\ hash_chain_verification' =
                Append(hash_chain_verification,
                       [block_id |-> log.log_id, previous_hash |-> verify.previousHash,
                        current_hash |-> log.previous_hash, computed_hash |-> currentHash,
                        is_valid |-> isValid, verified_by |-> verify.verifiedBy])
          /\ verify' = [verify EXCEPT
                           !.i = @ + 1, !.previousHash = currentHash,
                           !.invalidCount = IF isValid THEN @ ELSE @ + 1]
    /\ UNCHANGED <<audit_logs, appended, chainFrame, calls, out>>

\* return {success, total_blocks, invalid_blocks, chain_health}
VerifyReturn ==
    /\ verify.pc = "loop"
    /\ verify.i > Len(verify.auditLogs)
    /\ out' = Returned([op |-> "verifyHashChain", result |-> "success",
                        total_blocks |-> Len(verify.auditLogs),
                        invalid_blocks |-> verify.invalidCount,
                        chain_health |-> IF verify.invalidCount = 0
                                         THEN "healthy" ELSE "compromised",
                        auditLogs |-> verify.auditLogs])
    /\ verify' = IdleVerify
    /\ UNCHANGED <<audit_logs, appended, hash_chain_verification, chainFrame, calls>>

\* a query of the verifier throws; the blocks already inserted stay
VerifyFail ==
    /\ verify.pc # "idle"
    /\ out' = Returned([op |-> "verifyHashChain", result |-> "error"])
    /\ verify' = IdleVerify
    /\ UNCHANGED <<audit_logs, appended, hash_chain_verification, chainFrame, calls>>

NextChain ==
    \/ \E a \in ActionsLogged, d \in DetailsLogged : LogAction(a, d)
    \/ \E i \in 1..MaxLogs, a \in ActionTexts, d \in DetailTexts, forge \in BOOLEAN :
          Tamper(i, a, d, forge)
    \/ \E u \in Users : VerifyRead(u)
    \/ VerifyBlock
    \/ VerifyReturn
    \/ VerifyFail

SpecChain == Init /\ [][NextChain]_vars

\* the tampered entry is put back as it was appended
Restore(i) ==
    /\ i \in TamperedIn(audit_logs)
    /\ audit_logs' = [audit_logs EXCEPT ![i] = appended[i]]
    /\ UNCHANGED <<appended, hash_chain_verification, verify, chainFrame, calls, out>>

\* getHashChainStatus: the block verified last, the counts over all the
\* rows of hash_chain_verification, and the health by the invalid count
GetHashChainStatus ==
    /\ LET rows == hash_chain_verification
           invalid == Cardinality({k \in 1..Len(rows) : ~rows[k].is_valid})
       IN out' = Returned([op |-> "getHashChainStatus", result |-> "success",
                           latest_verification |-> IF rows = <<>> THEN <<>>
                                                   ELSE rows[Len(rows)],
                           total_blocks |-> Len(rows),
                           valid_blocks |-> Len(rows) - invalid,
                           invalid_blocks |-> invalid,
                           chain_health |-> IF invalid = 0 THEN "healthy"
                                            ELSE "compromised"])
    /\ UNCHANGED <<chainVars, chainFrame, calls>>

\* the log, its verifier and the status of the chain
NextStatus ==
    \/ NextChain
    \/ \E i \in 1..MaxLogs : Restore(i)
    \/ GetHashChainStatus

SpecStatus == Init /\ [][NextStatus]_vars

\* -------------------------------------------------------- validateAddress
\* what a call of the validator and the clock leave alone
cacheFrame == <<voters, roll, sweepVars, chainVars, fnVars, workerVars>>

\* the digests of the addresses submitted
AddressHashes == {"a1", "a2"}

\* process.env.GOOGLE_MAPS_API_KEY and MAPBOX_ACCESS_TOKEN are set or not
KeysIn == [GOOGLE_MAPS_API_KEY : BOOLEAN, MAPBOX_ACCESS_TOKEN : BOOLEAN]

\* what a request to a provider throws or answers without a usable result:
\* an error response, the 5 s timeout, no result, a location outside India
ProviderFailures == {"error", "timeout", "no_result", "outside_india"}

\* a result of Google Maps in India, by its geometry.location_type
GoogleOutcomes == {"ROOFTOP", "RANGE_INTERPOLATED", "APPROXIMATE"} \cup ProviderFailures

\* confidence of a Google Maps result, in hundredths
GoogleConfidence(outcome) ==
    IF outcome = "ROOFTOP" THEN 95
    ELSE IF outcome = "RANGE_INTERPOLATED" THEN 85 ELSE 75

\* a result of Mapbox in India, with a relevance of 1 or without one
MapboxOutcomes == {"relevance", "no_relevance"} \cup ProviderFailures

\* feature.relevance || 0.8, in hundredths
MapboxConfidence(outcome) == IF outcome = "relevance" THEN 100 ELSE 80

\* INTERVAL 30 DAY
CacheTtlDays == 30

\* the coordinates a provider returns for an address, and the coordinates
\* computed from the first 8 hex digits of the digest
Located(h) == <<"located", h>>
Placeholder(h) == <<"seeded", h>>

\* confidence of the placeholder, in hundredths: 0.6, 0.7 with three parts
\* or more, plus 0.1 up to 0.75 with a 6-character PIN code.  Address a1
\* has five parts and a PIN code, a2 has two parts and none.
FallbackConfidence(h) ==
    LET parts == IF h = "a1" THEN 5 ELSE 2
        pinLength == IF h = "a1" THEN 6 ELSE 0
        c1 == IF parts >= 3 THEN 70 ELSE 60
    IN IF pinLength = 6 THEN (IF c1 + 10 < 75 THEN c1 + 10 ELSE 75) ELSE c1

\* a provider that is asked again after it failed
StageAfterRetry(stage, keys) ==
    IF stage = "start"
    THEN (IF keys.GOOGLE_MAPS_API_KEY THEN "google_maps"
          ELSE IF keys.MAPBOX_ACCESS_TOKEN THEN "mapbox" ELSE "fallback")
    ELSE stage

\* the provider tried after stage: Google Maps when its key is set, then
\* Mapbox when its token is set, then the placeholder
StageAfter(stage, keys) ==
    IF stage = "start" /\ keys.GOOGLE_MAPS_API_KEY THEN "google_maps"
    ELSE IF stage \in {"start", "google_maps"} /\ keys.MAPBOX_ACCESS_TOKEN THEN "mapbox"
    ELSE "fallback"

\* the cache row is unexpired: expires_at > NOW()
Cached(h) ==
    h \in DOMAIN address_validation_cache /\ address_validation_cache[h].expires_at > now

\* normalize, hash, SELECT the cache row; a hit gives the geocode result
ValidateBegin(h, keys) ==
    /\ geo.pc = "idle"
    /\ calls < MaxValidateCalls
    /\ calls' = calls + 1
    /\ IF Cached(h)
       THEN geo' = [IdleGeo EXCEPT
                       !.pc = "score", !.addressHash = h, !.keys = keys,
                       !.geocodeResult =
                           [coordinates |-> address_validation_cache[h].geocode_coordinates,
                            confidence |-> address_validation_cache[h].geocode_confidence,
                            provider |-> address_validation_cache[h].geocode_provider]]
       ELSE geo' = [IdleGeo EXCEPT !.pc = StageAfter("start", keys),
                                   !.addressHash = h, !.keys = keys]
    /\ UNCHANGED <<address_validation_cache, now, cacheFrame, out>>

\* the request to Google Maps: a result in India is returned, anything
\* else (the catch included) falls through
GeocodeGoogle(outcome) ==
    /\ geo.pc = "google_maps"
    /\ IF outcome \notin ProviderFailures
       THEN geo' = [geo EXCEPT !.pc = "cache", !.tried = Append(@, "google_maps"),
                               !.geocodeResult =
                                   [coordinates |-> Located(geo.addressHash),
                                    confidence |-> GoogleConfidence(outcome),
                                    provider |-> "google_maps"]]
       ELSE geo' = [geo EXCEPT !.pc = StageAfter("google_maps", geo.keys),
                               !.tried = Append(@, "google_maps")]
    /\ UNCHANGED <<address_validation_cache, now, cacheFrame, calls, out>>

\* the request to Mapbox
GeocodeMapbox(outcome) ==
    /\ geo.pc = "mapbox"
    /\ IF outcome \notin ProviderFailures
       THEN geo' = [geo EXCEPT !.pc = "cache", !.tried = Append(@, "mapbox"),
                               !.geocodeResult =
                                   [coordinates |-> Located(geo.addressHash),
                                    confidence |-> MapboxConfidence(outcome),
                                    provider |-> "mapbox"]]
       ELSE geo' = [geo EXCEPT !.pc = StageAfter("mapbox", geo.keys),
                               !.tried = Append(@, "mapbox")]
    /\ UNCHANGED <<address_validation_cache, now, cacheFrame, calls, out>>

\* the deterministic placeholder
GeocodeFallback ==
    /\ geo.pc = "fallback"
    /\ geo' = [geo EXCEPT !.pc = "cache", !.tried = Append(@, "fallback"),
                          !.geocodeResult =
                              [coordinates |-> Placeholder(geo.addressHash),
                               confidence |-> FallbackConfidence(geo.addressHash),
                               provider |-> "fallback"]]
    /\ UNCHANGED <<address_validation_cache, now, cacheFrame, calls, out>>

\* INSERT INTO address_validation_cache ... ON DUPLICATE KEY UPDATE
\* normalized_address, geocode_latitude, geocode_longitude,
\* geocode_confidence, quality_score, expires_at (address_hash is UNIQUE)
CacheRow(h, g) ==
    [geocode_coordinates |-> g.coordinates, geocode_confidence |-> g.confidence,
     geocode_provider |-> IF h \in DOMAIN address_validation_cache
                          THEN address_validation_cache[h].geocode_provider
                          ELSE g.provider,
     expires_at |-> now + CacheTtlDays]

\* Cache result
CacheWrite ==
    /\ geo.pc = "cache"
    /\ address_validation_cache' =
           (geo.addressHash :> CacheRow(geo.addressHash, geo.geocodeResult))
               @@ address_validation_cache
    /\ geo' = [geo EXCEPT !.pc = "score"]
    /\ UNCHANGED <<now, cacheFrame, calls, out>>

\* return {..., addressHash, geocode, ...}; finally connection.release()
ValidateReturn ==
    /\ geo.pc = "score"
    /\ out' = Returned([op |-> "validateAddress", result |-> "success",
                        addressHash |-> geo.addressHash, geocode |-> geo.geocodeResult,
                        tried |-> geo.tried])
    /\ geo' = IdleGeo
    /\ UNCHANGED <<address_validation_cache, now, cacheFrame, calls>>

\* the INSERT throws: the error reaches the caller
ValidateFail ==
    /\ geo.pc = "cache"
    /\ out' = Returned([op |-> "validateAddress", result |-> "error",
                        addressHash |-> geo.addressHash, tried |-> geo.tried])
    /\ geo' = IdleGeo
    /\ UNCHANGED <<address_validation_cache, now, cacheFrame, calls>>

\* time passes between two calls: the lifetime of a cache row, or a day less
Tick(days) ==
    /\ geo.pc = "idle"
    /\ now + days <= MaxDay
    /\ now' = now + days
    /\ UNCHANGED <<address_validation_cache, geo, cacheFrame, calls, out>>

NextCache ==
    \/ \E h \in AddressHashes, keys \in KeysIn : ValidateBegin(h, keys)
    \/ \E o \in GoogleOutcomes : GeocodeGoogle(o)
    \/ \E o \in MapboxOutcomes : GeocodeMapbox(o)
    \/ GeocodeFallback
    \/ CacheWrite
    \/ ValidateReturn
    \/ ValidateFail
    \/ \E days \in {CacheTtlDays - 1, CacheTtlDays} : Tick(days)

SpecCache == Init /\ [][NextCache]_vars

\* -------------------------------------------------------- normalizeAddress
\* a string is the sequence of its characters; the characters of the
\* components submitted: letters in both cases, a digit, the space, the comma
Chars == {"s", "t", "S", " ", ","}

\* the strings of at most n characters
RECURSIVE StringsUpTo(_)
StringsUpTo(n) ==
    IF n = 0 THEN {<<>>}
    ELSE LET shorter == StringsUpTo(n - 1)
         IN shorter \cup {Append(str, c) : str \in {x \in shorter : Len(x) = n - 1},
                                            c \in Chars}

\* \s and \w of the regular expressions
Whitespace == {" "}
WordChars == {"a", "b", "c", "d", "e", "f", "g", "h", "i", "j", "k", "l", "m", "n", "o", "p", "q", "r", "s", "t", "u", "v", "w", "x", "y", "z",
              "S", "T", "1", "_"}

\* String.prototype.toLowerCase
toLowerCaseString(str) ==
    [i \in 1..Len(str) |-> IF str[i] = "S" THEN "s"
                           ELSE IF str[i] = "T" THEN "t" ELSE str[i]]

\* String.prototype.trim
RECURSIVE trim(_)
trim(str) ==
    IF str = <<>> THEN str
    ELSE IF Head(str) \in Whitespace THEN trim(Tail(str))
    ELSE IF str[Len(str)] \in Whitespace THEN trim(SubSeq(str, 1, Len(str) - 1))
    ELSE str

\* .replace(/\s+/g, ' ')
RECURSIVE CollapseWhitespace(_)
CollapseWhitespace(str) ==
    IF str = <<>> THEN str
    ELSE IF Head(str) \in Whitespace
         THEN IF Len(str) > 1 /\ str[2] \in Whitespace
              THEN CollapseWhitespace(Tail(str))
              ELSE <<" ">> \o CollapseWhitespace(Tail(str))
         ELSE <<Head(str)>> \o CollapseWhitespace(Tail(str))

\* .replace(/[^\w\s-]/g, '')
RemovePunctuation(str) ==
    SelectSeq(str, LAMBDA c : c \in WordChars \cup Whitespace \cup {"-"})

\* const normalize = (str) => ...
normalize(str) ==
    IF str = <<>> THEN <<>>
    ELSE RemovePunctuation(CollapseWhitespace(toLowerCaseString(trim(str))))

\* const abbreviations = { ... }, in the order of its keys
abbreviations ==
    <<
       <<<<"s", "t">>, <<"s", "t", "r", "e", "e", "t">>>>,
       <<<<"r", "d">>, <<"r", "o", "a", "d">>>>,
       <<<<"a", "v", "e">>, <<"a", "v", "e", "n", "u", "e">>>>,
       <<<<"b", "l", "v", "d">>, <<"b", "o", "u", "l", "e", "v", "a", "r", "d">>>>,
       <<<<"d", "r">>, <<"d", "r", "i", "v", "e">>>>,
       <<<<"l", "n">>, <<"l", "a", "n", "e">>>>,
       <<<<"c", "t">>, <<"c", "o", "u", "r", "t">>>>,
       <<<<"p", "l">>, <<"p", "l", "a", "c", "e">>>>,
       <<<<"s", "q">>, <<"s", "q", "u", "a", "r", "e">>>>,
       <<<<"n">>, <<"n", "o", "r", "t", "h">>>>,
       <<<<"s">>, <<"s", "o", "u", "t", "h">>>>,
       <<<<"e">>, <<"e", "a", "s", "t">>>>,
       <<<<"w">>, <<"w", "e", "s", "t">>>>,
       <<<<"n", "o">>, <<"n", "u", "m", "b", "e", "r">>>>,
       <<<<"a", "p", "t">>, <<"a", "p", "a", "r", "t", "m", "e", "n", "t">>>>,
       <<<<"f", "l">>, <<"f", "l", "o", "o", "r">>>>,
       <<<<"b", "l", "d", "g">>, <<"b", "u", "i", "l", "d", "i", "n", "g">>>>
    >>

\* the maximal runs of word characters and of other characters of a string
RECURSIVE Tokens(_)
Tokens(str) ==
    IF str = <<>> THEN <<>>
    ELSE LET rest == Tokens(Tail(str))
             c == Head(str)
         IN IF rest # <<>> /\ ((c \in WordChars) <=> (Head(rest)[1] \in WordChars))
            THEN <<(<<c>> \o Head(rest))>> \o Tail(rest)
            ELSE <<(<<c>>)>> \o rest

RECURSIVE Concat(_)
Concat(tokens) == IF tokens = <<>> THEN <<>> ELSE Head(tokens) \o Concat(Tail(tokens))

\* normalized.replace(new RegExp(`\\b${abbr}\\b`, 'gi'), abbreviations[abbr])
ReplaceWord(str, abbr, full) ==
    LET tokens == Tokens(str)
    IN Concat([i \in 1..Len(tokens) |->
                  IF toLowerCaseString(tokens[i]) = abbr THEN full ELSE tokens[i]])

\* const expandAbbreviation = (str) => ...
RECURSIVE ExpandFrom(_, _)
ExpandFrom(str, k) ==
    IF k > Len(abbreviations) THEN str
    ELSE ExpandFrom(ReplaceWord(str, abbreviations[k][1], abbreviations[k][2]), k + 1)

expandAbbreviation(str) == ExpandFrom(toLowerCaseString(str), 1)

\* [ ... ].filter(Boolean).join(', ')
RECURSIVE Join(_)
Join(parts) ==
    IF parts = <<>> THEN <<>>
    ELSE IF Len(parts) = 1 THEN parts[1]
    ELSE parts[1] \o <<",", " ">> \o Join(Tail(parts))

normalizeAddress(addressComponents) ==
    LET normalized ==
            [house_number |-> normalize(addressComponents.house_number),
             street |-> expandAbbreviation(normalize(addressComponents.street)),
             village_city |-> normalize(addressComponents.village_city),
             district |-> normalize(addressComponents.district),
             state |-> normalize(addressComponents.state),
             pin_code |-> trim(addressComponents.pin_code)]
        normalizedString ==
            Join(SelectSeq(<<normalized.house_number, normalized.street,
                             normalized.village_city, normalized.district,
                             normalized.state, normalized.pin_code>>,
                           LAMBDA part : part # <<>>))
    IN [normalized |-> normalized, normalizedString |-> normalizedString,
        components |-> normalized]

\* crypto.createHash('sha256').update(...).digest('hex'): equal digests
\* exactly for equal texts
generateAddressHash(normalizedAddress) ==
    <<"sha256", trim(toLowerCaseString(normalizedAddress))>>

\* the address components submitted, with a street of at most n characters
ComponentsIn(n) ==
    [house_number : {<<>>, <<"1">>},
     street : StringsUpTo(n),
     village_city : {<<"t">>},
     district : {<<>>},
     state : {<<>>},
     pin_code : {<<"1">>}]

InitNormalize ==
    /\ voters = [v \in Voters |-> NewVoter]
    /\ InitRoll
    /\ InitServices
    /\ input \in ComponentsIn(MaxLen)
    /\ output = <<>>

\* normalizeAddress(addressComponents)
Normalize ==
    /\ output = <<>>
    /\ output' = <<normalizeAddress(input)>>
    /\ UNCHANGED <<input, fnFrame>>

\* normalizeAddress of the components returned
Renormalize ==
    /\ Len(output) = 1
    /\ output' = Append(output, normalizeAddress(output[1].components))
    /\ UNCHANGED <<input, fnFrame>>

NextNormalize == Normalize \/ Renormalize

SpecNormalize == InitNormalize /\ [][NextNormalize]_vars

\* --------------------------------------------------- calculateQualityScore
\* \d of the regular expressions
Digits == {"1"}

\* pin_code: absent, six digits, six characters that are not all digits,
\* too short, six digits after a space
PinCodesIn ==
    {<<>>,
     <<"1", "1", "1", "1", "1", "1">>,
     <<"1", "1", "1", "1", "1", "s">>,
     <<"1">>,
     <<" ", "1", "1", "1", "1", "1", "1">>}

\* /^\d{6}$/.test(pin)
SixDigits(pin) == Len(pin) = 6 /\ \A i \in 1..Len(pin) : pin[i] \in Digits

\* geocodeResult.confidence in hundredths, from 0 to 1
ConfidencesIn == {c \in 0..100 : c % 5 = 0}

\* normalizedAddress.split(',').filter(p => p.trim().length > 0).length
PartsIn == 0..7

\* parseFloat(x.toFixed(2)) of x = n / 10000, in hundredths; a value half
\* way between two hundredths goes down or up with the binary
\* representation of x
toFixed2(n, tie) ==
    IF n % 100 = 50 THEN (IF tie = "up" THEN n \div 100 + 1 ELSE n \div 100)
    ELSE (n + 50) \div 100

\* a score that leaves the share of the geocode confidence out
calculateQualityScoreNoGeocode(addressComponents, parts, confidence, tie) ==
    LET score ==
              (IF addressComponents.house_number # <<>> THEN 5 ELSE 0)
            + (IF addressComponents.street # <<>> THEN 10 ELSE 0)
            + (IF addressComponents.village_city # <<>> THEN 10 ELSE 0)
            + (IF addressComponents.district # <<>> THEN 5 ELSE 0)
            + (IF addressComponents.state # <<>> THEN 5 ELSE 0)
            + (IF Len(addressComponents.pin_code) = 6 THEN 5 ELSE 0)
            + (IF parts >= 3 THEN 10 ELSE 0)
            + (IF parts >= 4 THEN 5 ELSE 0)
            + (IF parts >= 5 THEN 5 ELSE 0)
            + (IF SixDigits(trim(addressComponents.pin_code)) THEN 10 ELSE 0)
    IN toFixed2(100 * score, tie)

\* calculateQualityScore, in hundredths; score and maxScore are in points,
\* the sum below is in hundredths of a point and maxScore is 100 points
calculateQualityScore(addressComponents, parts, confidence, tie) ==
    LET score ==
              100 * (IF addressComponents.house_number # <<>> THEN 5 ELSE 0)
            + 100 * (IF addressComponents.street # <<>> THEN 10 ELSE 0)
            + 100 * (IF addressComponents.village_city # <<>> THEN 10 ELSE 0)
            + 100 * (IF addressComponents.district # <<>> THEN 5 ELSE 0)
            + 100 * (IF addressComponents.state # <<>> THEN 5 ELSE 0)
            + 100 * (IF Len(addressComponents.pin_code) = 6 THEN 5 ELSE 0)
            + 100 * (IF parts >= 3 THEN 10 ELSE 0)
            + 100 * (IF parts >= 4 THEN 5 ELSE 0)
            + 100 * (IF parts >= 5 THEN 5 ELSE 0)
            + confidence * 30
            + 100 * (IF SixDigits(trim(addressComponents.pin_code)) THEN 10 ELSE 0)
        finalScore == IF score < 10000 THEN score ELSE 10000
    IN toFixed2(finalScore, tie)

\* validatePinCodeMapping(pinCode, district, state).valid
validatePinCodeMapping(pinCode) == pinCode # <<>> /\ SixDigits(pinCode)

\* 7. Determine validation result
DetermineResult(qualityScore, pinValid, confidence) ==
    LET byScore == IF qualityScore < 50 THEN "rejected"
                   ELSE IF qualityScore < 75 THEN "flagged" ELSE "passed"
        byPin == IF ~pinValid THEN "flagged" ELSE byScore
        validationResult == IF confidence < 50 THEN "flagged" ELSE byPin
    IN [valid |-> validationResult = "passed",
        qualityScore |-> qualityScore,
        validationResult |-> validationResult,
        flags |-> (IF qualityScore < 50 THEN {"low_quality_score"}
                   ELSE IF qualityScore < 75 THEN {"medium_quality_score"} ELSE {})
                  \cup (IF ~pinValid THEN {"pin_mismatch"} ELSE {})
                  \cup (IF confidence < 50 THEN {"low_geocode_confidence"} ELSE {})]

\* the arguments: the components present or absent, the PIN code, the
\* parts of the normalized string, the geocode confidence
QualityIn ==
    [addressComponents : [house_number : {<<>>, <<"1">>},
                          street : {<<>>, <<"s">>},
                          village_city : {<<>>, <<"t">>},
                          district : {<<>>, <<"t">>},
                          state : {<<>>, <<"s">>},
                          pin_code : PinCodesIn],
     parts : PartsIn,
     confidence : ConfidencesIn,
     tie : {"down", "up"}]

InitQuality ==
    /\ voters = [v \in Voters |-> NewVoter]
    /\ InitRoll
    /\ InitServices
    /\ input \in QualityIn
    /\ output = <<>>

\* steps 5 to 7 of validateAddress
AssessQuality ==
    /\ output = <<>>
    /\ output' = DetermineResult(
                     calculateQualityScore(input.addressComponents, input.parts,
                                           input.confidence, input.tie),
                     validatePinCodeMapping(input.addressComponents.pin_code),
                     input.confidence)
    /\ UNCHANGED <<input, fnFrame>>

SpecQuality == InitQuality /\ [][AssessQuality]_vars

\* ------------------------------------------------------------------ soundex
\* the letters, in the order of the alphabet
LowerLetters == <<"a", "b", "c", "d", "e", "f", "g", "h", "i", "j", "k", "l", "m", "n", "o", "p", "q", "r", "s", "t", "u", "v", "w", "x", "y", "z">>
UpperLetters == <<"A", "B", "C", "D", "E", "F", "G", "H", "I", "J", "K", "L", "M", "N", "O", "P", "Q", "R", "S", "T", "U", "V", "W", "X", "Y", "Z">>

\* the position of a character in a sequence of characters, 0 if absent
IndexIn(c, letters) ==
    IF \E i \in 1..Len(letters) : letters[i] = c
    THEN CHOOSE i \in 1..Len(letters) : letters[i] = c
    ELSE 0

\* toUpperCase and toLowerCase of a string of the characters used here
toUpperCaseName(str) ==
    [i \in 1..Len(str) |-> IF IndexIn(str[i], LowerLetters) > 0
                           THEN UpperLetters[IndexIn(str[i], LowerLetters)]
                           ELSE str[i]]
toLowerCaseName(str) ==
    [i \in 1..Len(str) |-> IF IndexIn(str[i], UpperLetters) > 0
                           THEN LowerLetters[IndexIn(str[i], UpperLetters)]
                           ELSE str[i]]

\* const mapping = { ... }; "" for a character without an entry
mapping(c) ==
    IF c \in {"B", "F", "P", "V"} THEN "1"
    ELSE IF c \in {"C", "G", "J", "K", "Q", "S", "X", "Z"} THEN "2"
    ELSE IF c \in {"D", "T"} THEN "3"
    ELSE IF c \in {"L"} THEN "4"
    ELSE IF c \in {"M", "N"} THEN "5"
    ELSE IF c \in {"R"} THEN "6"
    ELSE ""

\* the for loop of soundex from index i (1-based) on
RECURSIVE SoundexFrom(_, _, _)
SoundexFrom(str, i, code) ==
    IF i > Len(str) \/ Len(code) >= 4 THEN code
    ELSE IF mapping(str[i]) # "" /\ mapping(str[i]) # code[Len(code)]
         THEN SoundexFrom(str, i + 1, Append(code, mapping(str[i])))
         ELSE SoundexFrom(str, i + 1, code)

\* padEnd(4, '0')
RECURSIVE padEnd4(_)
padEnd4(code) == IF Len(code) >= 4 THEN code ELSE padEnd4(Append(code, "0"))

\* a soundex that stops after the first letter and two digits
soundexShort(token) ==
    LET str == toUpperCaseName(token)
        code == SoundexFrom(str, 2, <<str[1]>>)
    IN IF Len(code) > 3 THEN SubSeq(code, 1, 3) ELSE code

\* soundex(name); s[0] of the empty string is undefined, and padEnd of
\* undefined throws a TypeError
soundex(token) ==
    LET str == toUpperCaseName(token)
    IN IF str = <<>> THEN <<"TypeError">>
       ELSE padEnd4(SoundexFrom(str, 2, <<str[1]>>))

\* the strings of at most n characters of chars
RECURSIVE StringsOver(_, _)
StringsOver(chars, n) ==
    IF n = 0 THEN {<<>>}
    ELSE LET shorter == StringsOver(chars, n - 1)
         IN shorter \cup {Append(str, c) : str \in {x \in shorter : Len(x) = n - 1},
                                            c \in chars}

Robert == <<"R", "o", "b", "e", "r", "t">>
Rupert == <<"R", "u", "p", "e", "r", "t">>

\* the alphabetic tokens coded: those of at most n of some letters, and the
\* two names
TokenChars == {"R", "r", "o", "u", "b", "p", "e", "t", "s", "c"}
TokensIn(n) == (StringsOver(TokenChars, n) \ {<<>>}) \cup {Robert, Rupert}

InitSoundex ==
    /\ voters = [v \in Voters |-> NewVoter]
    /\ InitRoll
    /\ InitServices
    /\ input \in TokensIn(MaxTokenLen)
    /\ output = <<>>

Soundex ==
    /\ output = <<>>
    /\ output' = soundex(input)
    /\ UNCHANGED <<input, fnFrame>>

SpecSoundex == InitSoundex /\ [][Soundex]_vars

\* ------------------------------------------------------------ validateName
\* the characters of the names submitted: two vowels, a consonant, a digit
\* and the space
NameChars == {"a", "e", "b", "1", " "}

\* ENUM('first_name','last_name','father_name','mother_name','guardian_name')
NameTypes == {"first_name", "last_name", "father_name", "mother_name", "guardian_name"}

\* name_frequency_lookup for the tokens of the name: no row, rows with
\* frequency_score 0, rows with frequency_score 1, or a query that throws
LookupsIn == {"absent", "rare", "common", "error"}

Vowels == {"a", "e", "i", "o", "u", "A", "E", "I", "O", "U"}
Letters == {LowerLetters[i] : i \in 1..Len(LowerLetters)}
               \cup {UpperLetters[i] : i \in 1..Len(UpperLetters)}
Consonants == Letters \ Vowels

Min2(a, b) == IF a < b THEN a ELSE b

\* str.split(/\s+/).filter(t => t.length > 0)
RECURSIVE Split(_)
Split(str) ==
    IF str = <<>> THEN <<>>
    ELSE IF Head(str) \in Whitespace THEN Split(Tail(str))
    ELSE LET rest == Split(Tail(str))
         IN IF Len(str) > 1 /\ str[2] \notin Whitespace
            THEN <<(<<Head(str)>> \o Head(rest))>> \o Tail(rest)
            ELSE <<(<<Head(str)>>)>> \o rest

\* const suspiciousPatterns = [ /^asdf/i, ... ]
suspiciousPatterns == {<<"a", "s", "d", "f">>, <<"q", "w", "e", "r", "t", "y">>, <<"t", "e", "s", "t">>, <<"d", "e", "m", "o">>, <<"s", "a", "m", "p", "l", "e">>, <<"f", "a", "k", "e">>, <<"d", "u", "m", "m", "y">>, <<"x", "y", "z">>, <<"a", "b", "c">>}

\* /^(.)\1+$/.test(token) for a token of more than one character
Repeated(token) ==
    Len(token) > 1 /\ \A i \in 1..Len(token) : token[i] = token[1]

\* pattern.test(token) for one of the patterns, same condition
Suspicious(token) ==
    \E pattern \in suspiciousPatterns :
        /\ Len(token) > 1
        /\ Len(token) >= Len(pattern)
        /\ toLowerCaseName(SubSeq(token, 1, Len(pattern))) = pattern

\* validateBasicRules(name)
validateBasicRules(fullName) ==
    LET trimmed == trim(fullName)
        tokens == Split(trimmed)
    IN IF fullName = <<>> THEN [valid |-> FALSE, reason |-> "Name is required"]
       ELSE IF Len(trimmed) < 4
            THEN [valid |-> FALSE, reason |-> "Name too short (minimum 4 characters)"]
       ELSE IF Len(trimmed) > 100
            THEN [valid |-> FALSE, reason |-> "Name too long (maximum 100 characters)"]
       ELSE IF \E i \in 1..Len(trimmed) : trimmed[i] \in Digits
            THEN [valid |-> FALSE, reason |-> "Name cannot contain digits"]
       ELSE IF \E i \in 1..Len(trimmed) :
                   trimmed[i] \notin Letters \cup Whitespace \cup {".", "-", "'"}
            THEN [valid |-> FALSE, reason |-> "Name contains invalid characters"]
       ELSE IF \E k \in 1..Len(tokens) :
                   Len(tokens[k]) < 2 /\ tokens[k] # <<"I">> /\ tokens[k] # <<"A">>
            THEN [valid |-> FALSE,
                  reason |-> "Each name part must be at least 2 characters"]
       ELSE IF \E k \in 1..Len(tokens) : Repeated(tokens[k]) \/ Suspicious(tokens[k])
            THEN LET first == CHOOSE k \in 1..Len(tokens) :
                                  /\ Repeated(tokens[k]) \/ Suspicious(tokens[k])
                                  /\ \A j \in 1..(k - 1) :
                                         ~(Repeated(tokens[j]) \/ Suspicious(tokens[j]))
                 IN [valid |-> FALSE,
                     reason |-> IF Repeated(tokens[first])
                                THEN "Name contains repeated characters"
                                ELSE "Name contains suspicious pattern"]
       ELSE [valid |-> TRUE, reason |-> ""]

\* checkPhoneticSanity(name).valid
checkPhoneticSanity(fullName) ==
    LET tokens == Split(trim(fullName))
        Count(token, set) == Cardinality({i \in 1..Len(token) : token[i] \in set})
    IN \A k \in 1..Len(tokens) :
           Len(tokens[k]) < 2
           \/ /\ Count(tokens[k], Consonants) > 0
              /\ Count(tokens[k], Vowels) > 0 \/ Len(tokens[k]) <= 2
              /\ Count(tokens[k], Vowels) <= 3 * Count(tokens[k], Consonants)

\* lookupNameFrequency(tokens, nameType) in hundredths, every token having
\* the same kind of row
lookupNameFrequency(tokens, lookup) ==
    LET frequency_score == IF lookup = "common" THEN 100 ELSE 0
        foundCount == IF lookup = "absent" THEN 0 ELSE Len(tokens)
    IN IF Len(tokens) = 0 \/ foundCount = 0 THEN 0
       ELSE Min2((frequency_score * 70) \div 100 + 30, 100)

\* the score of calculateQualityScore before toFixed, in units of
\* 1 / 20 000 000: 0.8 + lengthScore in hundredths, times 0.85 plus the
\* token count score, halved on phonetic issues, times 0.7 plus 0.3 times
\* the frequency, times 0.9 plus the character diversity, times 0.9 plus
\* the pattern score 0.1
ScoreUnit == 20000000
finalScore(fullName, lookup) ==
    LET tokens == Split(trim(fullName))
        uniqueChars == Cardinality({toLowerCaseName(fullName)[i] : i \in 1..Len(fullName)}
                                       \ Whitespace)
        a == 80 + Min2(Len(fullName), 20)
        b == a * 85 + 500 * Min2(Len(tokens), 3)
        c == IF checkPhoneticSanity(fullName) THEN 2 * b ELSE b
        d == c * 7 + 600 * lookupNameFrequency(tokens, lookup)
        e == d * 9 + 20000 * Min2(uniqueChars, 10)
        f == e * 9 + 2000000
    IN Min2(f, ScoreUnit)

\* parseFloat(finalScore.toFixed(2)) in hundredths
toFixed2Score(f, tie) ==
    LET unit == ScoreUnit \div 100
    IN IF f % unit = unit \div 2
       THEN (IF tie = "up" THEN f \div unit + 1 ELSE f \div unit)
       ELSE (f + unit \div 2) \div unit

\* a calculateQualityScore that scores the name whatever validateBasicRules says
calculateNameQualityScoreUnchecked(fullName, lookup, tie) ==
    LET f == finalScore(fullName, lookup)
    IN [score |-> toFixed2Score(f, tie), valid |-> 5 * f >= 2 * ScoreUnit,
        reason |-> "", flags |-> {}, tokens |-> Split(trim(fullName)),
        soundex |-> <<>>]

\* calculateQualityScore(name, nameType) of the name service, score in
\* hundredths
calculateNameQualityScore(fullName, lookup, tie) ==
    LET basicCheck == validateBasicRules(fullName)
        tokens == Split(trim(fullName))
        f == finalScore(fullName, lookup)
    IN IF ~basicCheck.valid
       THEN [score |-> 0, valid |-> FALSE, reason |-> basicCheck.reason,
             flags |-> {"basic_validation_failed"}, tokens |-> <<>>, soundex |-> <<>>]
       ELSE [score |-> toFixed2Score(f, tie),
             valid |-> 5 * f >= 2 * ScoreUnit,
             reason |-> "",
             flags |-> (IF ~checkPhoneticSanity(fullName) THEN {"phonetic_issues"} ELSE {})
                       \cup (IF 5 * f < 2 * ScoreUnit THEN {"low_quality"}
                             ELSE IF 10 * f < 7 * ScoreUnit THEN {"medium_quality"}
                             ELSE {}),
             tokens |-> tokens,
             soundex |-> soundex(tokens[1])]

\* the query of lookupNameFrequency is reached and throws
LookupThrows(fullName, lookup) ==
    /\ lookup = "error"
    /\ validateBasicRules(fullName).valid

\* validateName(name, nameType)
validateName(fullName, nameType, lookup, tie) ==
    LET result == calculateNameQualityScore(fullName, lookup, tie)
    IN IF LookupThrows(fullName, lookup) THEN [threw |-> TRUE]
       ELSE [threw |-> FALSE,
             normalized |-> trim(fullName),
             qualityScore |-> result.score,
             valid |-> result.valid,
             flags |-> result.flags,
             reason |-> result.reason,
             soundex |-> result.soundex,
             tokens |-> result.tokens,
             validationResult |-> IF result.score >= 80 THEN "passed"
                                  ELSE IF result.score >= 50 THEN "flagged"
                                  ELSE "rejected"]

\* the arguments: a name of at most n characters, its type, the rows found
NamesIn(n) ==
    [name : StringsOver(NameChars, n),
     nameType : NameTypes,
     lookup : LookupsIn,
     tie : {"down", "up"}]

InitName ==
    /\ voters = [v \in Voters |-> NewVoter]
    /\ InitRoll
    /\ InitServices
    /\ input \in NamesIn(MaxNameLen)
    /\ output = <<>>

ValidateName ==
    /\ output = <<>>
    /\ output' = validateName(input.name, input.nameType, input.lookup, input.tie)
    /\ UNCHANGED <<input, fnFrame>>

SpecName == InitName /\ [][ValidateName]_vars

\* ----------------------------------------------------- AddressClusterWorker
\* what the worker leaves alone; the rows a scan writes are the subject of
\* SpecSweep
workerFrame == <<voters, roll, sweepVars, chainVars, cacheVars, fnVars>>

\* runDetection up to its first await: return if isRunning, otherwise set
\* isRunning and call detectAddressClusters
RunDetection(w) ==
    IF w.isRunning
    THEN [w EXCEPT !.skipped = @ + 1]
    ELSE [w EXCEPT !.isRunning = TRUE, !.inFlight = @ + 1, !.scans = @ + 1]

\* a finally block that runs on success only
FinallyOnSuccess(w, threw) ==
    IF threw THEN [w EXCEPT !.inFlight = @ - 1]
    ELSE [w EXCEPT !.isRunning = FALSE, !.inFlight = @ - 1]

\* finally { this.isRunning = false; }
Finally(w, threw) == [w EXCEPT !.isRunning = FALSE, !.inFlight = @ - 1]

\* start(): schedule the interval and run once now, unless started
Start ==
    /\ calls < MaxWorkerCalls
    /\ calls' = calls + 1
    /\ worker' = IF worker.scheduled THEN worker
                 ELSE [RunDetection(worker) EXCEPT !.scheduled = TRUE]
    /\ out' = Returned([op |-> "start", result |-> IF worker.scheduled THEN "already"
                                                  ELSE IF worker.isRunning THEN "skipped"
                                                  ELSE "running"])
    /\ UNCHANGED workerFrame

\* stop(): clearInterval
Stop ==
    /\ calls < MaxWorkerCalls
    /\ calls' = calls + 1
    /\ worker.scheduled
    /\ worker' = [worker EXCEPT !.scheduled = FALSE]
    /\ out' = Returned([op |-> "stop", result |-> "success"])
    /\ UNCHANGED workerFrame

\* the interval fires: this.runDetection()
TimerFires ==
    /\ calls < MaxWorkerCalls
    /\ calls' = calls + 1
    /\ worker.scheduled
    /\ worker' = RunDetection(worker)
    /\ out' = Returned([op |-> "runDetection",
                        result |-> IF worker.isRunning THEN "skipped" ELSE "running"])
    /\ UNCHANGED workerFrame

\* detectAddressClusters resolves; the audit entry is written or its error
\* is logged; return result
DetectionResolves(audited) ==
    /\ worker.inFlight > 0
    /\ worker' = Finally(worker, FALSE)
    /\ out' = Returned([op |-> "runDetection", result |-> "success"])
    /\ UNCHANGED <<workerFrame, calls>>

\* detectAddressClusters rejects: catch, throw error
DetectionRejects ==
    /\ worker.inFlight > 0
    /\ worker' = [Finally(worker, TRUE) EXCEPT !.failed = @ + 1]
    /\ out' = Returned([op |-> "runDetection", result |-> "error"])
    /\ UNCHANGED <<workerFrame, calls>>

NextWorker ==
    \/ Start
    \/ Stop
    \/ TimerFires
    \/ \E audited \in BOOLEAN : DetectionResolves(audited)
    \/ DetectionRejects

SpecWorker == Init /\ [][NextWorker]_vars

\* ================================================================ claims
\* connection c takes a step of a call of operation o that it had begun
InFlightStep(c, o) ==
    conn[c].pc # "idle" /\ conn[c].op = o /\ conn'[c] # conn[c]

\* connection c begins a call of operation o that runs on after this step
BeginStep(c, o) ==
    conn[c].pc = "idle" /\ conn'[c].pc # "idle" /\ conn'[c].op = o

\* the step is the successful connection.commit() of c's call
CommitStep(c, o) ==
    InFlightStep(c, o) /\ conn'[c].pc = "idle" /\ last'.result = "success"

\* a call begins and ends in this step
AtOnceStep == calls' # calls /\ conn' = conn

FlagsOf(b) == {f \in DOMAIN revision_flags : revision_flags[f].batch_id = b}

\* C1: a commitBatch call that does not reach its commit (a statement
\* throws part-way, after any number of flags) leaves every voter, every
\* flag and every batch row as it was: no step of the call other than its
\* successful commit changes a committed row.
C1_FailedCommitChangesNothing ==
    [][\A c \in Conns :
          (InFlightStep(c, "commitBatch") /\ ~CommitStep(c, "commitBatch"))
              => UNCHANGED <<voters, revision_flags, revision_batches>>]_vars

\* C1 witness: a commitBatch threw after two flags (one of them deceased),
\* and its batch is draft, its flags pending and their voters active.
C1_Witness ==
    /\ last.op = "commitBatch"
    /\ last.result = "error"
    /\ last.n >= 2
    /\ last.id \in DOMAIN revision_batches
    /\ revision_batches[last.id].status = "draft"
    /\ \A f \in FlagsOf(last.id) :
          /\ revision_flags[f].status = "pending"
          /\ voters[revision_flags[f].voter_id].is_active = 1

\* C2: commitBatch on an existing batch that is not draft never enters the
\* transaction body; it throws the invalid-transition error in that very
\* step, and no row changes.
C2_NonDraftCommitRejected ==
    [][\A b \in DOMAIN revision_batches :
          revision_batches[b].status # "draft"
              => /\ \A c \in Conns : ~(BeginStep(c, "commitBatch") /\ conn'[c].id = b)
                 /\ (AtOnceStep /\ last'.op = "commitBatch" /\ last'.id = b)
                       => (last'.result = "invalid_transition" /\ UNCHANGED db)]_vars

\* C2 witness: the last call was a commitBatch on a committed batch and it
\* got the invalid-transition error.
C2_Witness ==
    /\ last.op = "commitBatch"
    /\ last.result = "invalid_transition"
    /\ revision_batches[last.id].status = "committed"
    /\ \E f \in FlagsOf(last.id) : revision_flags[f].status = "applied"

\* C3 (as claimed): a successful commitBatch leaves every pending flag of
\* the batch whose type is not deceased pending.
C3_OtherTypesStayPending ==
    [][\A c \in Conns :
          CommitStep(c, "commitBatch")
              => \A f \in FlagsOf(conn[c].id) :
                    (revision_flags[f].status = "pending"
                        /\ revision_flags[f].flag_type # "deceased")
                    => revision_flags'[f].status = "pending"]_vars

\* the committed rows show batch b before its commit: draft, every flag
\* pending, and a voter of one of its deceased flags is inactive only if a
\* committed batch has an applied deceased flag for that voter
PreCommit(b) ==
    /\ revision_batches[b].status = "draft"
    /\ \A f \in FlagsOf(b) :
          /\ revision_flags[f].status = "pending"
          /\ (revision_flags[f].flag_type = "deceased"
                 /\ voters[revision_flags[f].voter_id].is_active = 0)
             => \E g \in DOMAIN revision_flags :
                   /\ revision_flags[g].voter_id = revision_flags[f].voter_id
                   /\ revision_flags[g].flag_type = "deceased"
                   /\ revision_flags[g].status = "applied"
                   /\ revision_batches[revision_flags[g].batch_id].status = "committed"

\* the committed rows show batch b after its commit: committed, every
\* deceased flag applied and its voter inactive
PostCommit(b) ==
    /\ revision_batches[b].status = "committed"
    /\ \A f \in FlagsOf(b) :
          revision_flags[f].flag_type = "deceased"
              => /\ revision_flags[f].status = "applied"
                 /\ voters[revision_flags[f].voter_id].is_active = 0

\* C4: in every state the committed rows (what a reader on another
\* connection reads) show each batch either wholly before or wholly after
\* its commit, never in between.
C4_NoPartialCommitVisible ==
    \A b \in DOMAIN revision_batches : PreCommit(b) \/ PostCommit(b)

\* C4 witness: a commitBatch is part-way (two flags handled, a voter
\* deactivated in its transaction) while the committed rows still show the
\* batch before its commit with that voter active.
C4_Witness ==
    \E c \in Conns :
        /\ conn[c].op = "commitBatch"
        /\ conn[c].n >= 2
        /\ \E v \in DOMAIN txVoters[c] : txVoters[c][v].is_active = 0 /\ voters[v].is_active = 1
        /\ PreCommit(conn[c].id)

\* C5: no step of runDryRun changes a voter row, a task row or an existing
\* batch or flag row; its commit adds exactly its one batch, in draft, and
\* flags that are pending and belong to that batch; every other step of it
\* (a throw included) adds nothing.
C5_DryRunOnlyAdds ==
    [][\A c \in Conns :
          (InFlightStep(c, "runDryRun") \/ BeginStep(c, "runDryRun"))
              => /\ voters' = voters
                 /\ review_tasks' = review_tasks
                 /\ \A b \in DOMAIN revision_batches :
                       b \in DOMAIN revision_batches'
                          /\ revision_batches'[b] = revision_batches[b]
                 /\ \A f \in DOMAIN revision_flags :
                       f \in DOMAIN revision_flags'
                          /\ revision_flags'[f] = revision_flags[f]
                 /\ IF CommitStep(c, "runDryRun")
                    THEN /\ DOMAIN revision_batches' =
                               DOMAIN revision_batches \cup {conn[c].id}
                         /\ conn[c].id \notin DOMAIN revision_batches
                         /\ revision_batches'[conn[c].id].status = "draft"
                         /\ \A f \in DOMAIN revision_flags' \ DOMAIN revision_flags :
                               /\ revision_flags'[f].batch_id = conn[c].id
                               /\ revision_flags'[f].status = "pending"
                    ELSE /\ DOMAIN revision_batches' = DOMAIN revision_batches
                         /\ DOMAIN revision_flags' = DOMAIN revision_flags]_vars

\* C5 witness: a dry run returned with a duplicate and two deceased flags,
\* its batch is draft and every voter is still active and unreviewed.
C5_Witness ==
    /\ last.op = "runDryRun"
    /\ last.result = "success"
    /\ last.n >= 3
    /\ revision_batches[last.id].status = "draft"
    /\ \E f \in FlagsOf(last.id) : revision_flags[f].flag_type = "deceased"
    /\ \A v \in Voters :
          voters[v].is_active = 1 /\ voters[v].registration_status = "pending_review"

\* C6: a committed batch stays committed, and none of its flags that has
\* left pending is pending again, whatever step follows.
C6_CommittedIsFinal ==
    [][\A b \in DOMAIN revision_batches :
          revision_batches[b].status = "committed"
              => /\ b \in DOMAIN revision_batches'
                 /\ revision_batches'[b].status = "committed"
                 /\ \A f \in FlagsOf(b) :
                       /\ f \in DOMAIN revision_flags'
                       /\ revision_flags[f].status # "pending"
                             => revision_flags'[f].status # "pending"]_vars

\* C6 witness: two batches are committed, the later one after a dry run and
\* a commit that followed the first commit.
C6_Witness ==
    /\ \E b1, b2 \in DOMAIN revision_batches :
          /\ b1 # b2
          /\ revision_batches[b1].status = "committed"
          /\ revision_batches[b2].status = "committed"
          /\ \E f \in FlagsOf(b1) : revision_flags[f].status = "applied"
    /\ last.result = "success"

\* a call that ended in this step, begun in it or earlier, was of operation o
ReturnStep(o) ==
    /\ last'.op = o
    /\ \/ AtOnceStep
       \/ \E c \in Conns : InFlightStep(c, o) /\ conn'[c].pc = "idle"

\* C7: resolveTask writes the task and its voter together or not at all.
\* At the commit of a resolution of a task that references a voter the task
\* becomes resolved with the given action, the voter becomes active if the
\* action is approved, rejected with the reason (notes, or the default) if
\* it is rejected, and is untouched otherwise; every other step of the
\* call, a throw included, changes neither a task nor a voter.
C7_TaskAndVoterTogether ==
    [][\A c \in Conns :
          conn'[c] # conn[c] =>
             IF conn[c].pc = "idle"
             THEN (conn'[c].pc # "idle" /\ conn'[c].op = "resolveTask")
                     => UNCHANGED <<review_tasks, voters>>
             ELSE conn[c].op = "resolveTask" =>
                  IF conn'[c].pc = "idle" /\ last'.result = "success"
                  THEN conn[c].id \in DOMAIN review_tasks
                        => LET k == conn[c].id
                               a == conn[c].action
                               v == review_tasks[k].voter_id
                           IN /\ review_tasks'[k].status = "resolved"
                              /\ review_tasks'[k].resolution_action = a
                              /\ \A w \in Voters \ {v} : voters'[w] = voters[w]
                              /\ v # NULL =>
                                    /\ a = "approved" =>
                                          /\ voters'[v].registration_status = "active"
                                          /\ voters'[v].review_reason = voters[v].review_reason
                                    /\ a = "rejected" =>
                                          /\ voters'[v].registration_status = "rejected"
                                          /\ voters'[v].review_reason =
                                                IF conn[c].notes = "" THEN "Rejected by reviewer"
                                                ELSE conn[c].notes
                                    /\ a \notin {"approved", "rejected"} => voters'[v] = voters[v]
                  ELSE UNCHANGED <<review_tasks, voters>>]_vars

\* C7 witness: the last call resolved a task that references a voter as
\* approved, and that voter is active.
C7_Witness ==
    /\ last.op = "resolveTask"
    /\ last.result = "success"
    /\ last.id \in DOMAIN review_tasks
    /\ review_tasks[last.id].status = "resolved"
    /\ review_tasks[last.id].resolution_action = "approved"
    /\ review_tasks[last.id].voter_id # NULL
    /\ voters[review_tasks[last.id].voter_id].registration_status = "active"

\* C8 (as claimed): a resolveTask call that ends on a task that is already
\* resolved does not succeed and changes neither the task nor a voter.
C8_ResolveResolvedRejected ==
    [][(ReturnStep("resolveTask")
          /\ last'.id \in DOMAIN review_tasks
          /\ review_tasks[last'.id].status = "resolved")
         => (last'.result # "success" /\ UNCHANGED <<review_tasks, voters>>)]_vars

\* C9 (as claimed): the only status change an assignTask call makes is
\* open -> in_progress.
C9_AssignOnlyFromOpen ==
    [][(ReturnStep("assignTask") /\ last'.id \in DOMAIN review_tasks)
         => (review_tasks'[last'.id].status # review_tasks[last'.id].status
                => /\ review_tasks[last'.id].status = "open"
                   /\ review_tasks'[last'.id].status = "in_progress")]_vars

\* C10 (as claimed): a commitBatch, assignTask or resolveTask call whose id
\* names no row ends with the not-found outcome and changes no row.
C10_UnknownIdNotFound ==
    [][\A o \in {"commitBatch", "assignTask", "resolveTask"} :
          (ReturnStep(o)
             /\ last'.id \notin (IF o = "commitBatch" THEN DOMAIN revision_batches
                                 ELSE DOMAIN review_tasks))
            => (last'.result = "not_found" /\ UNCHANGED db)]_vars

\* the rows of address_cluster_flags for digest h
RowsOf(h) == {k \in DOMAIN address_cluster_flags : address_cluster_flags[k].address_hash = h}

\* the flags of a return as a set
FlagSet(r) == {r.flags[i] : i \in 1..Len(r.flags)}

\* the last return was a sweep that ran to its end
SweepReturned(r) == r.op = "detectAddressClusters" /\ r.result = "success"

\* C11: when a sweep returns right after another sweep with the same
\* thresholds returned, and no other call was made in between, it returns
\* the same flagsCreated and the same flags (address digest, voter_count,
\* risk_score, risk_level), and every digest it returns has exactly one row
\* in address_cluster_flags.
C11_SweepTwiceSame ==
    (/\ SweepReturned(out[1]) /\ SweepReturned(out[2])
     /\ out[1].thresholds = out[2].thresholds
     /\ NoSweep)
        => /\ out[1].flagsCreated = out[2].flagsCreated
           /\ FlagSet(out[1]) = FlagSet(out[2])
           /\ \A f \in FlagSet(out[1]) : Cardinality(RowsOf(f.address_hash)) = 1

\* C11 witness: two sweeps in a row over a roll of two voters at one
\* address returned one flag each, and the second found the row of the
\* first.
C11_Witness ==
    /\ SweepReturned(out[1]) /\ SweepReturned(out[2])
    /\ out[1].thresholds = out[2].thresholds
    /\ out[1].flagsCreated = 1
    /\ \E f \in FlagSet(out[1]) : f.voter_count = 2
    /\ nextClusterFlagId = 2
    /\ NoSweep

SweepStep(c) == sweep[c].pc # "idle" /\ sweep'[c] # sweep[c]

\* C13: no step of a sweep changes a row of address_cluster_flags that has
\* been reviewed, and a sweep that returns does not return the digest of a
\* reviewed row, whatever the size of the group is now.
C13_ResolvedFlagSkipped ==
    [][\A c \in Conns : SweepStep(c) =>
          \A k \in DOMAIN address_cluster_flags :
             address_cluster_flags[k].reviewed_at # ""
                => /\ address_cluster_flags'[k] = address_cluster_flags[k]
                   /\ (out' # out /\ SweepReturned(out'[1]))
                         => \A f \in FlagSet(out'[1]) :
                               f.address_hash # address_cluster_flags[k].address_hash]_vars

\* C13 witness: the flag of a group was resolved when the group had one
\* voter; a second voter registered at the address, and the sweep that
\* followed returned no flag and left the row at one voter.
C13_Witness ==
    /\ SweepReturned(out[1])
    /\ out[1].thresholds.low = 1
    /\ out[1].flagsCreated = 0
    /\ out[2].op = "submitVoter"
    /\ Cardinality({v \in Grouped : address_hash(v) = "d1"}) = 2
    /\ \E k \in RowsOf("d1") :
          /\ address_cluster_flags[k].reviewed_at # ""
          /\ address_cluster_flags[k].reviewed_by # NULL
          /\ address_cluster_flags[k].voter_count = 1

\* the voters of the group of digest h that are active and not rejected
ActiveInGroup(h) ==
    {v \in DOMAIN voters : /\ address_hash(v) = h
                           /\ voters[v].is_active = 1
                           /\ voters[v].registration_status # "rejected"}

\* C15 (as claimed): the groups a sweep reads count the voters that are
\* active and not rejected, and no group with fewer such voters than the
\* low threshold is among them.
C15_OnlyActiveCounted ==
    [][\A c \in Conns :
          (sweep[c].pc = "idle" /\ sweep'[c].pc = "check")
              => \A i \in 1..Len(sweep'[c].todo) :
                    LET cl == sweep'[c].todo[i]
                    IN /\ cl.voter_count = Cardinality(ActiveInGroup(cl.address_hash))
                       /\ cl.voter_count >= sweep'[c].thresholds.low]_vars

\* C14: a group whose voter count is at or above the high threshold gets
\* risk_level high or critical, whatever its surnames, birth dates and
\* registration span are.
C14_HighCountHighRisk ==
    (output # <<>> /\ input.voter_count >= input.thresholds.high)
        => output.risk_level \in {"high", "critical"}

\* C14 witness: 25 voters with 3 distinct surnames under the default
\* thresholds, registered within a week: the surname and the velocity
\* penalties apply and the level is high.
C14_Witness ==
    /\ output # <<>>
    /\ input.voter_count = 25
    /\ input.surnames = 3
    /\ input.thresholds = DefaultThresholds
    /\ input.timeSpanDays = 0
    /\ output.risk_level = "high"
    /\ output.risk_score = 9

\* the entries of the log a verification pass read that were not as
\* appended
TamperedRead(r) == {i \in 1..Len(r.auditLogs) : r.auditLogs[i] # appended[i]}

\* C16 (as claimed): a verification pass over a log with no tampered entry
\* returns healthy and zero invalid blocks; a pass over a log with exactly
\* one tampered entry, at any position, returns compromised and at least
\* one invalid block.
C16_TamperDetected ==
    (out[1].op = "verifyHashChain" /\ out[1].result = "success")
        => /\ TamperedRead(out[1]) = {}
                 => (out[1].chain_health = "healthy" /\ out[1].invalid_blocks = 0)
           /\ Cardinality(TamperedRead(out[1])) = 1
                 => (out[1].chain_health = "compromised" /\ out[1].invalid_blocks >= 1)

\* a call of validateAddress has returned r with a geocode result
Validated(r) == r.op = "validateAddress" /\ r.result = "success"

\* C17: every geocode result returned by validateAddress, computed or served
\* from the cache, whose coordinates are the placeholder seeded from the
\* digest carries the provider label 'fallback'
C17_PlaceholderLabelled ==
    Validated(out[1]) /\ out[1].geocode.coordinates[1] = "seeded"
        => out[1].geocode.provider = "fallback"

\* the position of a provider in the chain
StageRank(stage) ==
    IF stage = "google_maps" THEN 1
    ELSE IF stage = "mapbox" THEN 2
    ELSE IF stage = "fallback" THEN 3 ELSE 4

\* the providers tried are in the order of the chain, each at most once
InChainOrder(tried) ==
    \A i, j \in 1..Len(tried) : i < j => StageRank(tried[i]) < StageRank(tried[j])

\* C18: a step of the geocoding chain returns nothing to the caller of
\* validateAddress, whatever the provider answers; it either has a result
\* or moves to a later provider of the chain primary, secondary,
\* placeholder, so that no provider is tried twice, and the placeholder
\* always gives a result
C18_ProviderFailureAbsorbed ==
    [][geo.pc \in {"google_maps", "mapbox", "fallback"}
          => /\ out' = out
             /\ StageRank(geo'.pc) > StageRank(geo.pc)
             /\ InChainOrder(geo'.tried)
             /\ geo'.pc = "cache" <=> geo'.geocodeResult # <<>>
             /\ geo.pc = "fallback" => geo'.pc = "cache"]_vars

\* both providers have failed and the call has returned the placeholder
C18_Witness ==
    /\ Validated(out[1])
    /\ out[1].tried = <<"google_maps", "mapbox", "fallback">>
    /\ out[1].geocode.provider = "fallback"

\* C19: a call for a digest with an unexpired cache row tries no provider
\* and returns the cached geocode; a call for a digest without one tries a
\* provider and leaves a row for the digest that holds the result returned
\* and expires 30 days after the call
C19_ReadThrough ==
    [][geo.pc = "score" /\ geo'.pc = "idle"
          => LET h == geo.addressHash
                 row == address_validation_cache[h]
                 cachedGeocode == [coordinates |-> row.geocode_coordinates,
                                   confidence |-> row.geocode_confidence,
                                   provider |-> row.geocode_provider]
             IN /\ h \in DOMAIN address_validation_cache
                /\ out'[1].geocode = cachedGeocode
                /\ geo.tried # <<>> => row.expires_at = now + CacheTtlDays
                /\ geo.tried = <<>> => row.expires_at > now]_vars

\* C20: normalizeAddress of the components that normalizeAddress returned
\* gives the same normalized string and the same address digest
C20_NormalizeIdempotent ==
    Len(output) = 2
        => /\ output[2].normalizedString = output[1].normalizedString
           /\ generateAddressHash(output[2].normalizedString)
                  = generateAddressHash(output[1].normalizedString)

\* C21: the validation result follows from the quality score alone: below
\* 0.5 rejected, below 0.75 flagged, otherwise passed, whatever the flags
C21_ResultByThresholds ==
    output # <<>>
        => output.validationResult =
               (IF output.qualityScore < 50 THEN "rejected"
                ELSE IF output.qualityScore < 75 THEN "flagged" ELSE "passed")

\* the address of C22: six components, a PIN code of six digits, six parts,
\* a geocode confidence of 0.95
CompleteAddress ==
    /\ \A f \in DOMAIN input.addressComponents : input.addressComponents[f] # <<>>
    /\ SixDigits(input.addressComponents.pin_code)
    /\ input.parts >= 6
    /\ input.confidence = 95

\* C22: the quality score is between 0 and 1, and at least 0.75 for a
\* complete address with a valid PIN code and a geocode confidence of 0.95
C22_ScoreInRange ==
    output # <<>>
        => /\ output.qualityScore \in 0..100
           /\ CompleteAddress => output.qualityScore >= 75

\* the complete address has been scored
C22_Witness == output # <<>> /\ CompleteAddress /\ output.qualityScore >= 75

HasDigit == \E i \in 1..Len(input.name) : input.name[i] \in Digits

\* C23: validateName of a name that contains a digit returns a result, not
\* an exception, with valid false and score 0, for every name type
C23_DigitRejected ==
    output # <<>> /\ HasDigit
        => /\ ~output.threw
           /\ output.valid = FALSE
           /\ output.qualityScore = 0

\* a name of letters and a digit that passes the length check was rejected
C23_Witness ==
    /\ output # <<>>
    /\ input.name = <<"b", "a", "b", "e", "1">>
    /\ input.nameType = "guardian_name"
    /\ ~output.threw
    /\ output.reason = "Name cannot contain digits"

\* C30: valid is true only when validationResult is passed or flagged
C30_VerdictsAgree ==
    output # <<>> /\ ~output.threw
        => (output.valid => output.validationResult \in {"passed", "flagged"})

\* C25: the worker has at most one detection run in flight, and isRunning
\* is set exactly while it has one; a runDetection made while a run is in
\* flight starts no scan; the end of a run, resolved or rejected, clears
\* isRunning; a runDetection made while none is in flight, also after a
\* failed run, starts a scan
C25_NoOverlappingRuns ==
    [][/\ worker'.inFlight <= 1
       /\ worker'.isRunning <=> worker'.inFlight = 1
       /\ worker'.inFlight < worker.inFlight => ~worker'.isRunning
       /\ worker'.skipped > worker.skipped
              => worker.isRunning /\ worker'.scans = worker.scans
       /\ out'[1].op = "runDetection" /\ calls' > calls /\ ~worker.isRunning
              => worker'.scans = worker.scans + 1]_vars

\* a run failed, a later scheduled run is executing and a runDetection made
\* meanwhile was skipped
C25_Witness ==
    /\ worker.failed >= 1
    /\ worker.scans >= 2
    /\ worker.skipped >= 1
    /\ worker.isRunning
    /\ out[1] = [op |-> "runDetection", result |-> "skipped"]

\* C26: of the commitBatch calls for one batch at most one succeeds: a
\* call's transaction commits only while the batch is still draft, so the
\* flags and the committed status are written by one commit alone
C26_OneCommitSucceeds ==
    [][\A c \in Conns :
          CommitStep(c, "commitBatch") => revision_batches[conn[c].id].status = "draft"]_vars

\* C27: getAddressFlags called right after assignFlag reports the flag
\* assigned with status under_review
C27_AssignedUnderReview ==
    out[1].op = "getAddressFlags" /\ out[2].op = "assignFlag"
        => \A f \in out[1].flags : f.id = out[2].id => f.status = "under_review"

\* C28: getHashChainStatus called after a verifyHashChain pass that found
\* no invalid block, with no pass running, reports chain_health healthy
C28_StatusOfLastPass ==
    /\ out[1].op = "getHashChainStatus"
    /\ out[2].op = "verifyHashChain" /\ out[2].result = "success"
    /\ out[2].invalid_blocks = 0
    /\ verify.pc = "idle"
    => out[1].chain_health = "healthy"

\* the step is the scan of c's runDryRun
ScanStep(c) ==
    conn[c].op = "runDryRun" /\ conn[c].pc = "scan" /\ conn'[c].pc = "insert"

\* C29: the scan of a runDryRun turns up no deceased flag for a voter who
\* is inactive when it runs, in particular none for a voter that an
\* earlier commit has deactivated for a deceased match
C29_DeactivatedNotReflagged ==
    [][\A c \in Conns :
          ScanStep(c)
              => \A i \in 1..Len(conn'[c].todo) :
                    conn'[c].todo[i].flag_type = "deceased"
                        => voters[conn'[c].todo[i].voter_id].is_active = 1]_vars

\* a batch was committed and deactivated a voter for a deceased match, and
\* the dry run that has just returned a later batch did not flag the voter
\* as deceased
C29_Witness ==
    /\ last.op = "runDryRun"
    /\ last.result = "success"
    /\ \E b \in DOMAIN revision_batches, v \in Voters :
          /\ b < last.id
          /\ revision_batches[b].status = "committed"
          /\ voters[v].is_active = 0
          /\ \E f \in FlagsOf(b) :
                /\ revision_flags[f].voter_id = v
                /\ revision_flags[f].flag_type = "deceased"
                /\ revision_flags[f].status = "applied"
          /\ \A f \in FlagsOf(last.id) :
                ~(revision_flags[f].voter_id = v /\ revision_flags[f].flag_type = "deceased")
====
